---- MODULE Spec2Model ----
(***************************************************************************)
(* Model of the stateful components of zenith-editor:                      *)
(*   - FontLoader (utils/fontLoader.ts): the process-wide font cache       *)
(*   - useFontLoader (hooks/useFontLoader.ts): the hook around the cache   *)
(*   - ImageResize (components/ImageResize.tsx): the resize gesture        *)
(* Every asynchronous function is cut at its await points.                 *)
(* Platform behaviour (FontFace.load, timers, the                          *)
(* document.fonts.ready promise, pointer events, React's deferred          *)
(* re-render) is the environment and is nondeterministic.                  *)
(***************************************************************************)
EXTENDS Integers, Sequences, FiniteSets, TLC

VARIABLES
  env,              \* platform capabilities: [hasFontFace, fontsInDocument]
  loadedFonts,      \* FontLoader.loadedFonts: Map<string, FontFace>, in insertion order
  loadingPromises,  \* FontLoader.loadingPromises: family -> performFontLoad operation (0: none)
  ops,              \* the performFontLoad invocations started so far
  calls,            \* the loadFont invocations made so far, with what their promise did
  batches,          \* the loadFonts invocations made so far
  documentFonts,    \* document.fonts: the platform's active font set (FontFace objects)
  fontsReady,       \* whether document.fonts.ready is currently a resolved promise
  readyQueue,       \* operations suspended at `await document.fonts.ready`, in order
  react,            \* ImageResize: the component's useState values
  rendered,         \* ImageResize: what the last committed render closed over
  effect,           \* ImageResize: what the last run of the useEffect callbacks closed over
  attrs,            \* ImageResize: node.attrs.width / height, the persisted attributes
  image,            \* ImageResize: the <img> element: naturalWidth, naturalHeight, loaded
  selected,         \* ImageResize: the `selected` prop
  gesture,          \* ImageResize: bookkeeping about the gestures made so far
  generated,        \* the last string createFontSource / createCSSFontFace built, and from what
  hook              \* useFontLoader: the mounted hook, its state and its pending effect

fontVars == <<env, loadedFonts, loadingPromises, ops, calls, batches, documentFonts,
  fontsReady, readyQueue, generated, hook>>

resizeVars == <<react, rendered, effect, attrs, image, selected, gesture>>

vars == <<env, loadedFonts, loadingPromises, ops, calls, batches, documentFonts, fontsReady,
  readyQueue, react, rendered, effect, attrs, image, selected, gesture, generated, hook>>

(***************************************************************************)
(* Bounds of the model.                                                    *)
(***************************************************************************)
MaxCalls == 2
MaxBatchLen == 2

Families == {"Inter", "Roboto"}
\* The two families are interchangeable, so the first load ever made is taken
\* to name this one.
FirstFamily == "Inter"

(***************************************************************************)
(* Strings whose content the code inspects are sequences of characters.    *)
(***************************************************************************)
TimeoutWord == <<"t","i","m","e","o","u","t">>
TimeoutPrefix == <<"F","o","n","t"," ","l","o","a","d","i","n","g"," ","t","i","m","e","o","u","t"," ","a","f","t","e","r"," ">>
TimeoutSuffix == <<"m","s">>
UnknownError == <<"U","n","k","n","o","w","n"," ","e","r","r","o","r">>
UnsupportedError == <<"F","o","n","t","F","a","c","e"," ","A","P","I"," ","i","s"," ","n","o","t"," ","s","u","p","p","o","r","t","e","d"," ","i","n"," ","t","h","i","s"," ","b","r","o","w","s","e","r">>
FontNotFound == <<"F","o","n","t"," ","n","o","t"," ","f","o","u","n","d">>
NetworkTimeout == <<"N","e","t","w","o","r","k"," ","t","i","m","e","o","u","t">>

DigitChars == <<"0","1","2","3","4","5","6","7","8","9">>

RECURSIVE NumberToString(_)
\* `${timeout}` for a non-negative integer
NumberToString(n) ==
  IF n < 10 THEN <<DigitChars[n + 1]>>
  ELSE NumberToString(n \div 10) \o <<DigitChars[(n % 10) + 1]>>

\* String.prototype.includes
Includes(s, pat) ==
  \E i \in 1..(Len(s) - Len(pat) + 1) : SubSeq(s, i, i + Len(pat) - 1) = pat

UpperCaseChars == <<"A","B","C","D","E","F","G","H","I","J","K","L","M","N","O","P","Q","R","S","T","U","V","W","X","Y","Z">>
LowerCaseChars == <<"a","b","c","d","e","f","g","h","i","j","k","l","m","n","o","p","q","r","s","t","u","v","w","x","y","z">>

\* String.prototype.toLowerCase
toLowerCase(s) ==
  [i \in 1..Len(s) |->
     IF \E k \in 1..Len(UpperCaseChars) : UpperCaseChars[k] = s[i]
     THEN LowerCaseChars[CHOOSE k \in 1..Len(UpperCaseChars) : UpperCaseChars[k] = s[i]]
     ELSE s[i]]

\* s.split(sep).pop(): what follows the last sep, the whole of s when it has none
SplitPop(s, sep) ==
  LET at == {i \in 1..Len(s) : s[i] = sep}
  IN IF at = {} THEN s
     ELSE SubSeq(s, (CHOOSE i \in at : \A j \in at : j <= i) + 1, Len(s))

\* an optional property that was left out
Undefined == <<"undefined">>

(***************************************************************************)
(* Thrown values and promise outcomes.                                     *)
(***************************************************************************)
ErrorOf(msg) == [isError |-> TRUE, message |-> msg]
NonError == [isError |-> FALSE, message |-> <<>>]
NoReason == [isError |-> FALSE, message |-> <<"-">>]

\* what FontFace.load() may reject with
FetchRejections == {ErrorOf(FontNotFound), ErrorOf(NetworkTimeout), NonError}

Fulfilled(v) == [kind |-> "fulfilled", value |-> v, reason |-> NoReason]
Rejected(r) == [kind |-> "rejected", value |-> [status |-> "none"], reason |-> r]
Pending == [kind |-> "pending", value |-> [status |-> "none"], reason |-> NoReason]

DefaultTimeout == 5000
ShortTimeout == 50
Timeouts == {DefaultTimeout}

\* CustomFontDefinition, reduced to the field that decides the control flow
Descriptors == [fontFamily : Families]

(***************************************************************************)
(* FontLoader                                                              *)
(***************************************************************************)
\* a capability check that looks for the FontFace constructor alone
isSupported_FontFaceOnly == env.hasFontFace

isSupported == env.hasFontFace /\ env.fontsInDocument

\* Map.prototype.has / get / set / delete on loadedFonts (a sequence of entries)
MapHas(m, k) == \E i \in 1..Len(m) : m[i].family = k
MapGet(m, k) == m[CHOOSE i \in 1..Len(m) : m[i].family = k].face
MapSet(m, k, v) ==
  IF MapHas(m, k)
  THEN [i \in 1..Len(m) |-> IF m[i].family = k THEN [family |-> k, face |-> v] ELSE m[i]]
  ELSE Append(m, [family |-> k, face |-> v])
MapDelete(m, k) == SelectSeq(m, LAMBDA e : e.family # k)
MapKeys(m) == [i \in 1..Len(m) |-> m[i].family]
MapValues(m) == {m[i].face : i \in 1..Len(m)}

\* the FontFace object constructed by performFontLoad / by loadFont for operation o
PerformFace(o) == [by |-> "performFontLoad", op |-> o]
StoredFace(o) == [by |-> "loadFont", op |-> o]

Woff2 == <<"w","o","f","f","2">>
Woff == <<"w","o","f","f">>
Ttf == <<"t","t","f">>
Otf == <<"o","t","f">>
Eot == <<"e","o","t">>
TrueType == <<"t","r","u","e","t","y","p","e">>
OpenType == <<"o","p","e","n","t","y","p","e">>
EmbeddedOpenType == <<"e","m","b","e","d","d","e","d","-","o","p","e","n","t","y","p","e">>

\* detectFontFormat(src)
detectFontFormat(src) ==
  LET extension == toLowerCase(SplitPop(src, "."))
  IN IF extension = Woff2 THEN Woff2
     ELSE IF extension = Woff THEN Woff
     ELSE IF extension = Ttf THEN TrueType
     ELSE IF extension = Otf THEN OpenType
     ELSE IF extension = Eot THEN EmbeddedOpenType
     ELSE TrueType

\* createFontSource(src, format)
createFontSource(src, format) ==
  LET detectedFormat == IF format # Undefined /\ format # <<>> THEN format
                        ELSE detectFontFormat(src)
  IN <<"u","r","l","(","\"">> \o src \o <<"\"",")"," ","f","o","r","m","a","t","(","\"">> \o detectedFormat \o <<"\"",")">>

\* `= dflt` in a destructuring pattern
DefaultTo(v, dflt) == IF v = Undefined THEN dflt ELSE v

Normal == <<"n","o","r","m","a","l">>
Swap == <<"s","w","a","p">>

\* FontLoader.createCSSFontFace(fontDefinition)
createCSSFontFace(fontDefinition) ==
  LET detectedFormat == IF fontDefinition.format # Undefined /\ fontDefinition.format # <<>>
                        THEN fontDefinition.format
                        ELSE detectFontFormat(fontDefinition.src)
  IN <<"@","f","o","n","t","-","f","a","c","e"," ","{","\n">>
     \o <<" "," ","f","o","n","t","-","f","a","m","i","l","y",":"," ","'">> \o fontDefinition.fontFamily \o <<"'",";","\n">>
     \o <<" "," ","s","r","c",":"," ","u","r","l","(","'">> \o fontDefinition.src \o <<"'",")"," ","f","o","r","m","a","t","(","'">> \o detectedFormat \o <<"'",")",";","\n">>
     \o <<" "," ","f","o","n","t","-","w","e","i","g","h","t",":"," ">> \o DefaultTo(fontDefinition.fontWeight, Normal) \o <<";","\n">>
     \o <<" "," ","f","o","n","t","-","s","t","y","l","e",":"," ">> \o DefaultTo(fontDefinition.fontStyle, Normal) \o <<";","\n">>
     \o <<" "," ","f","o","n","t","-","s","t","r","e","t","c","h",":"," ">> \o DefaultTo(fontDefinition.fontStretch, Normal) \o <<";","\n">>
     \o <<" "," ","f","o","n","t","-","d","i","s","p","l","a","y",":"," ">> \o DefaultTo(fontDefinition.fontDisplay, Swap) \o <<";","\n">>
     \o (IF fontDefinition.unicodeRange # Undefined /\ fontDefinition.unicodeRange # <<>>
         THEN <<" "," ","u","n","i","c","o","d","e","-","r","a","n","g","e",":"," ">> \o fontDefinition.unicodeRange \o <<";","\n">>
         ELSE <<>>)
     \o <<"}">>

isFontLoaded(fontFamily) == MapHas(loadedFonts, fontFamily)
getLoadedFonts == MapKeys(loadedFonts)

\* a timer message worded without the word the catch clause looks for
TimeoutMessage_TimedOut(timeout) ==
  <<"t","i","m","e","d"," ","o","u","t"," ","a","f","t","e","r"," ">> \o NumberToString(timeout) \o TimeoutSuffix

TimeoutMessage(timeout) == TimeoutPrefix \o NumberToString(timeout) \o TimeoutSuffix

\* a catch clause that lets the error escape
CatchClause_Rethrow(fontFamily, error) == Rejected(error)

\* the catch clause of performFontLoad
CatchClause(fontFamily, error) ==
  LET errorMessage == IF error.isError THEN error.message ELSE UnknownError
  IN Fulfilled([fontFamily |-> fontFamily,
                status |-> IF Includes(errorMessage, TimeoutWord) THEN "timeout" ELSE "error",
                error |-> errorMessage])

\* the value performFontLoad returns after document.fonts.ready
LoadedResult(fontFamily) == Fulfilled([fontFamily |-> fontFamily, status |-> "loaded"])

\* the value loadFont returns when FontLoader.isSupported() is false
UnsupportedResult(fontFamily) ==
  Fulfilled([fontFamily |-> fontFamily, status |-> "error", error |-> UnsupportedError])

\* performFontLoad up to its first await: the FontFace is constructed, the
\* timer is armed and FontFace.load() is started.
NewOp(fontDefinition, timeout, callIx) ==
  [family |-> fontDefinition.fontFamily, definition |-> fontDefinition,
   timeout |-> timeout, call |-> callIx,
   fetch |-> "pending", timer |-> "pending",
   race |-> "pending", raceBy |-> "none", raceReason |-> NoReason,
   pc |-> "race", stored |-> FALSE, cleared |-> FALSE, outcome |-> Pending]

NewCall(fontDefinition, kind, op, outcome, pendingBefore) ==
  [family |-> fontDefinition.fontFamily, definition |-> fontDefinition,
   kind |-> kind, op |-> op, outcome |-> outcome,
   concurrentWith |-> pendingBefore]

\* Promises nobody can act on any more are dropped from the state: an entry of
\* ops, calls or batches is kept in full for the one state after it settles
\* and is then replaced by these.
GoneOp ==
  [family |-> "", definition |-> [fontFamily |-> ""], timeout |-> 0, call |-> 0, fetch |-> "gone", timer |-> "gone",
   race |-> "gone", raceBy |-> "none", raceReason |-> NoReason,
   pc |-> "gone", stored |-> FALSE, cleared |-> FALSE, outcome |-> Pending]
GoneCall ==
  [family |-> "", definition |-> [fontFamily |-> ""], kind |-> "gone", op |-> 0, outcome |-> [Pending EXCEPT !.kind = "gone"],
   concurrentWith |-> {}]
GoneBatch ==
  [families |-> <<>>, calls |-> <<>>, values |-> <<>>,
   outcome |-> [Pending EXCEPT !.kind = "gone"]]

\* an operation is finished when loadFont has returned and a late settling of
\* its fetch could no longer be observed
OpFinished(op) ==
  /\ op.pc = "returned"
  /\ op.fetch # "pending" \/ op.raceBy # "timer"

Collect(S) ==
  [S EXCEPT
     !.ops = [o \in 1..Len(S.ops) |-> IF OpFinished(S.ops[o]) THEN GoneOp ELSE S.ops[o]],
     !.calls = [c \in 1..Len(S.calls) |->
                  IF S.calls[c].outcome.kind = "pending" THEN S.calls[c] ELSE GoneCall],
     !.batches = [b \in 1..Len(S.batches) |->
                  IF S.batches[b].outcome.kind = "pending" THEN S.batches[b] ELSE GoneBatch]]

LiveCalls(cs) == {i \in 1..Len(cs) : cs[i].kind # "gone"}
PendingCalls(cs) == {i \in 1..Len(cs) : cs[i].outcome.kind = "pending"}
LiveOps == {o \in 1..Len(ops) : ops[o].pc # "gone"}
LiveBatches == {b \in 1..Len(batches) : batches[b].outcome.kind # "gone"}

\* The cache and what hangs on it, as one value: the pieces of loadFont and
\* performFontLoad below are functions from one such value to the next.
(***************************************************************************)
(* useFontLoader: the state of the hook and its updaters                   *)
(***************************************************************************)
InitialHookState == [loading |-> <<>>, loaded |-> <<>>, failed |-> <<>>, isLoading |-> FALSE]

\* what the component that calls the hook keeps beside it: the failures it
\* has handed to onFontLoadError (useZenithEditor) and the content font
\* (useEditorFonts: the state, the value the last render closed over, and the
\* last explicit applyFontToContent / removeFontFromContent)
NoFont == "null"
NoUser ==
  [reported |-> <<>>, autoApply |-> FALSE, currentFont |-> NoFont, renderedFont |-> NoFont,
   lastExplicit |-> "none"]

\* no component uses the hook; `replaced` says that state.loaded and
\* state.failed are new arrays since the last render
NotMounted ==
  [mounted |-> FALSE, autoLoad |-> FALSE, initialFonts |-> <<>>, stable |-> TRUE,
   state |-> InitialHookState, dirty |-> FALSE, effectDue |-> FALSE, waiting |-> {},
   waitingCalls |-> {}, issued |-> 0, replaced |-> FALSE, user |-> NoUser]

addToLoading(prev, fontFamily) ==
  [prev EXCEPT !.loading = Append(SelectSeq(@, LAMBDA f : f # fontFamily), fontFamily),
               !.isLoading = TRUE]

\* a removeFromLoading that leaves the flag as it finds it
removeFromLoading_KeepsFlag(prev, fontFamily) ==
  [prev EXCEPT !.loading = SelectSeq(@, LAMBDA f : f # fontFamily)]

removeFromLoading(prev, fontFamily) ==
  LET newLoading == SelectSeq(prev.loading, LAMBDA f : f # fontFamily)
  IN [prev EXCEPT !.loading = newLoading, !.isLoading = Len(newLoading) > 0]

\* an addToLoaded that leaves the failed list alone
addToLoaded_KeepsFailed(prev, fontFamily) ==
  [prev EXCEPT !.loaded = Append(SelectSeq(@, LAMBDA f : f # fontFamily), fontFamily)]

addToLoaded(prev, fontFamily) ==
  [prev EXCEPT !.loaded = Append(SelectSeq(@, LAMBDA f : f # fontFamily), fontFamily),
               !.failed = SelectSeq(@, LAMBDA f : f.fontFamily # fontFamily)]

addToFailed(prev, fontFamily, error) ==
  [prev EXCEPT !.failed = Append(SelectSeq(@, LAMBDA f : f.fontFamily # fontFamily),
                                 [fontFamily |-> fontFamily, error |-> error]),
               !.loaded = SelectSeq(@, LAMBDA f : f # fontFamily)]

FailedToLoadPrefix == <<"F","a","i","l","e","d"," ","t","o"," ","l","o","a","d"," ","f","o","n","t",":"," ">>
StatusChars(status) ==
  IF status = "timeout" THEN <<"t","i","m","e","o","u","t">>
  ELSE IF status = "error" THEN <<"e","r","r","o","r">>
  ELSE IF status = "loading" THEN <<"l","o","a","d","i","n","g">>
  ELSE <<"l","o","a","d","e","d">>

RECURSIVE AddAllToLoading(_, _)
\* fontDefinitions.forEach(font => addToLoading(font.fontFamily))
AddAllToLoading(prev, fontDefinitions) ==
  IF fontDefinitions = <<>> THEN prev
  ELSE AddAllToLoading(addToLoading(prev, Head(fontDefinitions).fontFamily), Tail(fontDefinitions))

RECURSIVE ApplyResults(_, _)
\* loadFontsCallback after the await: results.forEach(...)
ApplyResults(prev, results) ==
  IF results = <<>> THEN prev
  ELSE LET result == Head(results)
           st == removeFromLoading(prev, result.fontFamily)
           error == IF "error" \in DOMAIN result /\ result.error # <<>> THEN result.error
                    ELSE FailedToLoadPrefix \o StatusChars(result.status)
       IN ApplyResults(IF result.status = "loaded" THEN addToLoaded(st, result.fontFamily)
                       ELSE addToFailed(st, result.fontFamily, error),
                       Tail(results))

RECURSIVE ApplyFailure(_, _, _)
\* the catch clause of loadFontsCallback
ApplyFailure(prev, families, error) ==
  IF families = <<>> THEN prev
  ELSE LET errorMessage == IF error.isError THEN error.message ELSE UnknownError
       IN ApplyFailure(addToFailed(removeFromLoading(prev, Head(families)), Head(families),
                                   errorMessage),
                       Tail(families), error)

RECURSIVE HookReactions(_, _)
\* the continuations of loadFontsCallback for the batches that have settled,
\* in the order in which they were awaited
HookReactions(h, bs) ==
  LET settled == {b \in h.waiting : bs[b].outcome.kind \in {"fulfilled", "rejected"}}
  IN IF settled = {} THEN h
     ELSE LET b == CHOOSE x \in settled : \A y \in settled : x <= y
              st == IF bs[b].outcome.kind = "fulfilled"
                    THEN ApplyResults(h.state, bs[b].outcome.value)
                    ELSE ApplyFailure(h.state, bs[b].families, bs[b].outcome.reason)
          IN HookReactions([h EXCEPT !.state = st, !.dirty = TRUE, !.replaced = TRUE,
                                     !.waiting = @ \ {b}], bs)

RECURSIVE HookCallReactions(_, _)
\* the continuations of the hook's loadFont for the calls that have settled
HookCallReactions(h, cs) ==
  LET settled == {c \in h.waitingCalls : cs[c].outcome.kind \in {"fulfilled", "rejected"}}
  IN IF settled = {} THEN h
     ELSE LET c == CHOOSE x \in settled : \A y \in settled : x <= y
              st == IF cs[c].outcome.kind = "fulfilled"
                    THEN ApplyResults(h.state, <<cs[c].outcome.value>>)
                    ELSE ApplyFailure(h.state, <<cs[c].family>>, cs[c].outcome.reason)
          IN HookCallReactions([h EXCEPT !.state = st, !.dirty = TRUE, !.replaced = TRUE,
                                         !.waitingCalls = @ \ {c}], cs)

\* the state update of the hook's removeFont
RemoveFromState(prev, fontFamily, success) ==
  IF success
  THEN [prev EXCEPT !.loaded = SelectSeq(@, LAMBDA f : f # fontFamily),
                    !.failed = SelectSeq(@, LAMBDA f : f.fontFamily # fontFamily)]
  ELSE prev

CacheState ==
  Collect([loadedFonts |-> loadedFonts, loadingPromises |-> loadingPromises, ops |-> ops,
           calls |-> calls, batches |-> batches, documentFonts |-> documentFonts,
           readyQueue |-> readyQueue])

SetCache(S) ==
  /\ loadedFonts' = S.loadedFonts
  /\ loadingPromises' = S.loadingPromises
  /\ ops' = S.ops
  /\ calls' = S.calls
  /\ batches' = S.batches
  /\ documentFonts' = S.documentFonts
  /\ readyQueue' = S.readyQueue

\* the cache after a task, and the hook after the continuations that the
\* task's settled promises ran in it
SetCacheState(S) ==
  /\ SetCache(S)
  /\ hook' = HookReactions(HookCallReactions(hook, S.calls), S.batches)
  /\ UNCHANGED generated

\* a loadFont that does not look into loadedFonts first
LoadFontSync_NoRegistryCheck(S, d, timeout) ==
  LET fontFamily == d.fontFamily
      before == {i \in PendingCalls(S.calls) : S.calls[i].family = fontFamily}
      callIx == Len(S.calls) + 1
  IN IF S.loadingPromises[fontFamily] # 0
     THEN [S EXCEPT !.calls = Append(@, NewCall(d, "attached",
                                                S.loadingPromises[fontFamily], Pending, before))]
     ELSE IF ~isSupported
     THEN [S EXCEPT !.calls = Append(@, NewCall(d, "unsupported", 0,
                                                UnsupportedResult(fontFamily), before))]
     ELSE LET o == Len(S.ops) + 1
          IN [S EXCEPT !.ops = Append(@, NewOp(d, timeout, callIx)),
                       !.loadingPromises[fontFamily] = o,
                       !.calls = Append(@, NewCall(d, "started", o, Pending, before))]

\* a loadFont that joins a running load only when the descriptor is the one
\* that load was started with
LoadFontSync_KeyedByDescriptor(S, d, timeout) ==
  LET fontFamily == d.fontFamily
      before == {i \in PendingCalls(S.calls) : S.calls[i].family = fontFamily}
      callIx == Len(S.calls) + 1
      running == S.loadingPromises[fontFamily]
  IN IF MapHas(S.loadedFonts, fontFamily)
     THEN [S EXCEPT !.calls = Append(@, NewCall(d, "cached", 0,
                                                LoadedResult(fontFamily), before))]
     ELSE IF running # 0 /\ S.ops[running].definition = d
     THEN [S EXCEPT !.calls = Append(@, NewCall(d, "attached", running, Pending, before))]
     ELSE IF ~isSupported
     THEN [S EXCEPT !.calls = Append(@, NewCall(d, "unsupported", 0,
                                                UnsupportedResult(fontFamily), before))]
     ELSE LET o == Len(S.ops) + 1
          IN [S EXCEPT !.ops = Append(@, NewOp(d, timeout, callIx)),
                       !.loadingPromises[fontFamily] = o,
                       !.calls = Append(@, NewCall(d, "started", o, Pending, before))]

\* loadFont up to its first await
LoadFontSync(S, d, timeout) ==
  LET fontFamily == d.fontFamily
      before == {i \in PendingCalls(S.calls) : S.calls[i].family = fontFamily}
      callIx == Len(S.calls) + 1
  IN IF MapHas(S.loadedFonts, fontFamily)
     THEN [S EXCEPT !.calls = Append(@, NewCall(d, "cached", 0,
                                                LoadedResult(fontFamily), before))]
     ELSE IF S.loadingPromises[fontFamily] # 0
     THEN [S EXCEPT !.calls = Append(@, NewCall(d, "attached",
                                                S.loadingPromises[fontFamily], Pending, before))]
     ELSE IF ~isSupported
     THEN [S EXCEPT !.calls = Append(@, NewCall(d, "unsupported", 0,
                                                UnsupportedResult(fontFamily), before))]
     ELSE LET o == Len(S.ops) + 1
          IN [S EXCEPT !.ops = Append(@, NewOp(d, timeout, callIx)),
                       !.loadingPromises[fontFamily] = o,
                       !.calls = Append(@, NewCall(d, "started", o, Pending, before))]

RECURSIVE LoadEach(_, _, _)
\* fontDefinitions.map(font => this.loadFont(font, options))
LoadEach(S, ds, timeout) ==
  IF ds = <<>> THEN S
  ELSE LoadEach(LoadFontSync(S, Head(ds), timeout), Tail(ds), timeout)

\* a combinator that gives up at the first font that did not load and answers
\* with that font's result alone
PromiseAll_FailFast(values) ==
  LET failed == {i \in 1..Len(values) :
                   values[i].kind = "fulfilled" /\ values[i].value.status # "loaded"}
  IN IF failed # {}
     THEN Fulfilled(<<values[CHOOSE i \in failed : \A j \in failed : i <= j].value>>)
     ELSE IF \A i \in 1..Len(values) : values[i].kind = "fulfilled"
     THEN Fulfilled([i \in 1..Len(values) |-> values[i].value])
     ELSE Pending

\* Promise.all: rejects with the first rejection it sees, fulfils with all the
\* values, in order, once the last one is in
PromiseAll(values) ==
  IF \E i \in 1..Len(values) : values[i].kind = "rejected"
  THEN Rejected(values[CHOOSE i \in 1..Len(values) : values[i].kind = "rejected"].reason)
  ELSE IF \A i \in 1..Len(values) : values[i].kind = "fulfilled"
  THEN Fulfilled([i \in 1..Len(values) |-> values[i].value])
  ELSE Pending

\* the reactions Promise.all registered on the loadFont promises of each batch
SettleBatches(S) ==
  [S EXCEPT !.batches = [b \in 1..Len(S.batches) |->
     IF S.batches[b].outcome.kind = "pending"
     THEN LET bt == S.batches[b]
              values == [i \in 1..Len(bt.calls) |->
                           IF bt.values[i].kind = "pending"
                           THEN S.calls[bt.calls[i]].outcome ELSE bt.values[i]]
          IN [bt EXCEPT !.values = values, !.outcome = PromiseAll(values)]
     ELSE S.batches[b]]]

\* loadFont from `await loadingPromise` to its return, finally block included,
\* followed by the promise reactions of the callers that were handed the same
\* promise (they run after loadFont's own continuation, which was registered first)
LoadFontResume(S, o, out) ==
  LET fontFamily == S.ops[o].family
      store == out.kind = "fulfilled" /\ out.value.status = "loaded"
  IN SettleBatches(
       [S EXCEPT
          !.loadedFonts = IF store THEN MapSet(@, fontFamily, StoredFace(o)) ELSE @,
          !.loadingPromises[fontFamily] = 0,
          !.ops[o].pc = "returned",
          !.ops[o].stored = store,
          !.ops[o].outcome = out,
          !.calls = [c \in 1..Len(S.calls) |->
                       IF S.calls[c].op = o /\ S.calls[c].outcome.kind = "pending"
                       THEN [S.calls[c] EXCEPT !.outcome = out]
                       ELSE S.calls[c]]])

\* a performFontLoad that never hands the loaded face to document.fonts
PerformFontLoadResume_NoAdd(S, o, ready) ==
  IF S.ops[o].race = "fulfilled"
  THEN IF ready
       THEN LoadFontResume(S, o, LoadedResult(S.ops[o].family))
       ELSE [S EXCEPT !.ops[o].pc = "ready", !.readyQueue = Append(@, o)]
  ELSE LoadFontResume(S, o, CatchClause(S.ops[o].family, S.ops[o].raceReason))

\* performFontLoad from `await Promise.race(...)` on
PerformFontLoadResume(S, o, ready) ==
  IF S.ops[o].race = "fulfilled"
  THEN LET S1 == [S EXCEPT !.documentFonts = @ \cup {PerformFace(o)}]
       IN IF ready
          THEN LoadFontResume(S1, o, LoadedResult(S.ops[o].family))
          ELSE [S1 EXCEPT !.ops[o].pc = "ready", !.readyQueue = Append(@, o)]
  ELSE LoadFontResume(S, o, CatchClause(S.ops[o].family, S.ops[o].raceReason))

RECURSIVE ResumeWaiting(_, _)
\* the continuations waiting on document.fonts.ready, in the order they began to wait
ResumeWaiting(S, queue) ==
  IF queue = <<>> THEN [S EXCEPT !.readyQueue = <<>>]
  ELSE ResumeWaiting(LoadFontResume(S, Head(queue), LoadedResult(S.ops[Head(queue)].family)),
                     Tail(queue))

\* a removeFont that reports success whether or not the family was recorded
removeFont_AlwaysTrue(S, fontFamily) ==
  [S |-> [S EXCEPT !.loadedFonts = MapDelete(@, fontFamily)], returned |-> TRUE]

\* removeFont: the cache after the call, and the value returned
removeFont(S, fontFamily) ==
  IF MapHas(S.loadedFonts, fontFamily)
  THEN [S |-> [S EXCEPT
                 !.documentFonts = @ \ {MapGet(S.loadedFonts, fontFamily)},
                 !.loadedFonts = MapDelete(@, fontFamily)],
        returned |-> TRUE]
  ELSE [S |-> S, returned |-> FALSE]

\* clearAllFonts; the operations it finds running are marked, they are not stopped
clearAllFonts(S) ==
  [S EXCEPT
     !.documentFonts = @ \ MapValues(S.loadedFonts),
     !.loadedFonts = <<>>,
     !.loadingPromises = [f \in Families |-> 0],
     !.ops = [o \in 1..Len(S.ops) |->
                IF S.ops[o].pc \in {"race", "ready"}
                THEN [S.ops[o] EXCEPT !.cleared = TRUE] ELSE S.ops[o]]]

(***************************************************************************)
(* Actions.  One action is one task of the event loop together with the    *)
(* promise reactions (microtasks) it triggers inside the cache.            *)
(***************************************************************************)

\* a caller invokes loadFont(d, {timeout})
LoadFont(d, timeout) ==
  LET S == LoadFontSync(CacheState, d, timeout)
  IN /\ Len(S.calls) <= MaxCalls
     /\ SetCacheState(S)
     /\ UNCHANGED <<env, fontsReady, resizeVars>>

\* loadFonts(ds, {timeout}): Promise.all over the loadFont calls
loadFonts(S, ds, timeout) ==
  LET S1 == LoadEach(S, ds, timeout)
      S2 == [S1 EXCEPT !.batches = Append(@,
               [families |-> [i \in 1..Len(ds) |-> ds[i].fontFamily],
                calls |-> [i \in 1..Len(ds) |-> Len(S.calls) + i],
                values |-> [i \in 1..Len(ds) |-> Pending], outcome |-> Pending])]
  IN SettleBatches(S2)

\* a caller invokes loadFonts(ds, {timeout})
LoadFonts(ds, timeout) ==
  LET S == loadFonts(CacheState, ds, timeout)
  IN /\ Len(S.calls) <= MaxCalls
     /\ SetCacheState(S)
     /\ UNCHANGED <<env, fontsReady, resizeVars>>

\* a late success of FontFace.load() that still adds the face to document.fonts
FetchSettles_LateAdd(o, ok, reason) ==
  /\ ops[o].fetch = "pending"
  /\ ops[o].race = "pending" \/ ok
  /\ LET won == ops[o].race = "pending"
         S == [CacheState EXCEPT
                 !.ops[o].fetch = IF ok THEN "fulfilled" ELSE "rejected",
                 !.ops[o].race = IF ~won THEN @ ELSE IF ok THEN "fulfilled" ELSE "rejected",
                 !.ops[o].raceBy = IF won THEN "fetch" ELSE @,
                 !.ops[o].raceReason = IF won /\ ~ok THEN reason ELSE @,
                 !.documentFonts = IF ~won /\ ok THEN @ \cup {PerformFace(o)} ELSE @]
     IN SetCacheState(IF won THEN PerformFontLoadResume(S, o, fontsReady) ELSE S)
  /\ UNCHANGED <<env, fontsReady, resizeVars>>

\* FontFace.load() of operation o settles.  Once the timer has won the race a
\* rejection is dropped without a trace, so only the late success is kept.
FetchSettles(o, ok, reason) ==
  /\ ops[o].fetch = "pending"
  /\ ops[o].race = "pending" \/ ok
  /\ LET won == ops[o].race = "pending"
         S == [CacheState EXCEPT
                 !.ops[o].fetch = IF ok THEN "fulfilled" ELSE "rejected",
                 !.ops[o].race = IF ~won THEN @ ELSE IF ok THEN "fulfilled" ELSE "rejected",
                 !.ops[o].raceBy = IF won THEN "fetch" ELSE @,
                 !.ops[o].raceReason = IF won /\ ~ok THEN reason ELSE @]
     IN SetCacheState(IF won THEN PerformFontLoadResume(S, o, fontsReady) ELSE S)
  /\ UNCHANGED <<env, fontsReady, resizeVars>>

\* the setTimeout callback of operation o runs.  After loadFont has returned
\* the callback rejects a settled promise, which changes nothing.
TimerFires(o) ==
  /\ ops[o].timer = "pending"
  /\ ops[o].pc # "returned"
  /\ LET won == ops[o].race = "pending"
         S == [CacheState EXCEPT
                 !.ops[o].timer = "fired",
                 !.ops[o].race = IF won THEN "rejected" ELSE @,
                 !.ops[o].raceBy = IF won THEN "timer" ELSE @,
                 !.ops[o].raceReason = IF won THEN ErrorOf(TimeoutMessage(ops[o].timeout)) ELSE @]
     IN SetCacheState(IF won THEN PerformFontLoadResume(S, o, fontsReady) ELSE S)
  /\ UNCHANGED <<env, fontsReady, resizeVars>>

\* the platform starts loading some font: document.fonts.ready becomes a new pending promise
FontsBusy ==
  /\ fontsReady
  /\ \E o \in 1..Len(ops) : ops[o].pc = "race"
  /\ fontsReady' = FALSE
  /\ SetCacheState(CacheState)
  /\ UNCHANGED <<env, resizeVars>>

\* the platform resolves document.fonts.ready
FontsReady ==
  /\ ~fontsReady
  /\ fontsReady' = TRUE
  /\ SetCacheState(ResumeWaiting(CacheState, readyQueue))
  /\ UNCHANGED <<env, resizeVars>>

\* a caller invokes removeFont(fontFamily)
RemoveFont(fontFamily) ==
  /\ SetCacheState(removeFont(CacheState, fontFamily).S)
  /\ UNCHANGED <<env, fontsReady, resizeVars>>

\* a caller invokes clearAllFonts()
ClearAllFonts ==
  /\ SetCacheState(clearAllFonts(CacheState))
  /\ UNCHANGED <<env, fontsReady, resizeVars>>

\* the src values handed to the loader
Sources ==
  { <<"a",".","w","o","f","f","2">>, <<"a",".","w","o","f","f">>, <<"b",".","t","t","f">>, <<"c",".","o","t","f">>, <<"d",".","e","o","t">>,
    <<"e",".","W","O","F","F","2">>, <<"f",".","s","v","g">>, <<"f","o","n","t">>, <<"a",".","w","o","f","f","2","?","v","=","1">> }
\* the format of a definition: left out, or named
Formats == {Undefined, OpenType}

CSSSources == { <<"f",".","w","o","f","f","2">>, <<"b",".","t","t","f">>, <<"a",".","w","o","f","f","2","?","v","=","1">> }
\* the optional properties of a definition: all left out, or all given
OptionalProperties ==
  { [fontWeight |-> Undefined, fontStyle |-> Undefined, fontStretch |-> Undefined,
     unicodeRange |-> Undefined, fontDisplay |-> Undefined],
    [fontWeight |-> <<"b","o","l","d">>, fontStyle |-> <<"i","t","a","l","i","c">>, fontStretch |-> <<"c","o","n","d","e","n","s","e","d">>,
     unicodeRange |-> <<"U","+","0","-","7","F">>, fontDisplay |-> <<"b","l","o","c","k">>] }
CSSDefinitions ==
  { [fontFamily |-> <<"F">>, src |-> src, format |-> format,
     fontWeight |-> o.fontWeight, fontStyle |-> o.fontStyle, fontStretch |-> o.fontStretch,
     unicodeRange |-> o.unicodeRange, fontDisplay |-> o.fontDisplay] :
       src \in CSSSources, format \in Formats, o \in OptionalProperties }

NothingGenerated ==
  [call |-> "none", definition |-> [src |-> <<>>, format |-> Undefined], output |-> <<>>]

\* performFontLoad builds the source string of the FontFace it constructs
CreateFontSource(src, format) ==
  /\ generated' = [call |-> "createFontSource", definition |-> [src |-> src, format |-> format],
                   output |-> createFontSource(src, format)]
  /\ UNCHANGED <<env, loadedFonts, loadingPromises, ops, calls, batches, documentFonts,
                 fontsReady, readyQueue, hook, resizeVars>>

\* a caller invokes FontLoader.createCSSFontFace(fontDefinition)
CreateCSSFontFace(fontDefinition) ==
  /\ generated' = [call |-> "createCSSFontFace", definition |-> fontDefinition,
                   output |-> createCSSFontFace(fontDefinition)]
  /\ UNCHANGED <<env, loadedFonts, loadingPromises, ops, calls, batches, documentFonts,
                 fontsReady, readyQueue, hook, resizeVars>>

\* the initialFonts a component hands to the hook
InitialFontLists ==
  { <<>>, <<[fontFamily |-> FirstFamily]>>,
    <<[fontFamily |-> FirstFamily], [fontFamily |-> "Roboto"]>> }

\* a component has mounted with useFontLoader(initialFonts, {autoLoad}); it
\* hands the hook the same array on every render (stable) or a new array with
\* the same contents; the effects of the first render are still to run
HookInit ==
  \E autoLoad \in BOOLEAN, initialFonts \in InitialFontLists, stable \in BOOLEAN :
    hook = [mounted |-> TRUE, autoLoad |-> autoLoad, initialFonts |-> initialFonts,
            stable |-> stable, state |-> InitialHookState, dirty |-> FALSE,
            effectDue |-> TRUE, waiting |-> {}, waitingCalls |-> {}, issued |-> 0,
            replaced |-> FALSE, user |-> NoUser]

\* the auto-load effect runs: loadFontsCallback(initialFonts) up to its await,
\* and whatever follows it in the same task
AutoLoadEffect ==
  /\ hook.mounted
  /\ hook.effectDue
  /\ IF hook.autoLoad /\ Len(hook.initialFonts) > 0 /\ isSupported
     THEN LET S == loadFonts(CacheState, hook.initialFonts, DefaultTimeout)
              h == [hook EXCEPT !.state = AddAllToLoading(@, hook.initialFonts),
                                !.dirty = TRUE,
                                !.effectDue = FALSE,
                                !.waiting = @ \cup {Len(S.batches)},
                                !.issued = @ + 1]
          IN /\ Len(S.calls) <= MaxCalls
             /\ SetCache(S)
             /\ hook' = HookReactions(h, S.batches)
     ELSE /\ hook' = [hook EXCEPT !.effectDue = FALSE]
          /\ SetCache(CacheState)
  /\ UNCHANGED <<env, fontsReady, generated, resizeVars>>

\* the component renders again, because the hook's state changed or because
\* its parent rendered; the effect is due again when a dependency changed,
\* and of [autoLoad, initialFonts, loadFontsCallback] only the identity of
\* initialFonts can
HookRender ==
  /\ hook.mounted
  /\ ~hook.effectDue
  /\ hook.dirty \/ ~hook.stable
  /\ hook' = [hook EXCEPT !.dirty = FALSE, !.effectDue = ~hook.stable, !.replaced = FALSE]
  /\ UNCHANGED <<env, loadedFonts, loadingPromises, ops, calls, batches, documentFonts,
                 fontsReady, readyQueue, generated, resizeVars>>

\* the component calls the hook's loadFont(d)
HookLoadFont(d) ==
  /\ hook.mounted
  /\ LET S == LoadFontSync(CacheState, d, DefaultTimeout)
         h == [hook EXCEPT !.state = addToLoading(@, d.fontFamily),
                           !.dirty = TRUE,
                           !.waitingCalls = @ \cup {Len(S.calls)}]
     IN /\ Len(S.calls) <= MaxCalls
        /\ SetCache(S)
        /\ hook' = HookReactions(HookCallReactions(h, S.calls), S.batches)
  /\ UNCHANGED <<env, fontsReady, generated, resizeVars>>

\* the component calls the hook's loadFonts(ds)
HookLoadFonts(ds) ==
  /\ hook.mounted
  /\ LET S == loadFonts(CacheState, ds, DefaultTimeout)
         h == [hook EXCEPT !.state = AddAllToLoading(@, ds),
                           !.dirty = TRUE,
                           !.waiting = @ \cup {Len(S.batches)}]
     IN /\ Len(S.calls) <= MaxCalls
        /\ SetCache(S)
        /\ hook' = HookReactions(HookCallReactions(h, S.calls), S.batches)
  /\ UNCHANGED <<env, fontsReady, generated, resizeVars>>

\* the component calls the hook's removeFont(f)
HookRemoveFont(fontFamily) ==
  /\ hook.mounted
  /\ LET r == removeFont(CacheState, fontFamily)
     IN /\ SetCache(r.S)
        /\ hook' = [hook EXCEPT !.state = RemoveFromState(@, fontFamily, r.returned),
                                !.dirty = @ \/ r.returned,
                                !.replaced = @ \/ r.returned]
  /\ UNCHANGED <<env, fontsReady, generated, resizeVars>>

\* the component calls the hook's clearAllFonts()
HookClearAllFonts ==
  /\ hook.mounted
  /\ SetCache(clearAllFonts(CacheState))
  /\ hook' = [hook EXCEPT !.state = InitialHookState, !.dirty = TRUE, !.replaced = TRUE]
  /\ UNCHANGED <<env, fontsReady, generated, resizeVars>>

\* useZenithEditor's effect on [state.failed, onFontLoadError], with a callback
\* that is the same function on every render: the calls of onFontLoadError
\* after a render that saw `changed`
ReportFailures(reported, failed, changed) ==
  IF changed /\ Len(failed) > 0 THEN reported \o failed ELSE reported

\* the component that uses useZenithEditor renders and its effects run
ZenithRender ==
  /\ hook.mounted
  /\ hook.dirty
  /\ hook' = [hook EXCEPT !.dirty = FALSE, !.effectDue = ~hook.stable, !.replaced = FALSE,
                          !.user.reported = ReportFailures(@, hook.state.failed, hook.replaced)]
  /\ UNCHANGED <<env, loadedFonts, loadingPromises, ops, calls, batches, documentFonts,
                 fontsReady, readyQueue, generated, resizeVars>>

\* useEditorFonts: setCurrentFont(fontFamily) (the style of the content
\* elements is not modelled)
applyFontToContent(user, fontFamily) == [user EXCEPT !.currentFont = fontFamily]

\* useEditorFonts: setCurrentFont(null)
removeFontFromContent(user) == [user EXCEPT !.currentFont = NoFont]

\* getCurrentContentFont() of the last render: the currentFont it closed over
getCurrentContentFont == hook.user.renderedFont

\* the auto-apply effect of a render whose dependencies [autoApply,
\* state.loaded, currentFont, applyFontToContent] changed
AutoApplyEffect(user, loaded, depsChanged) ==
  IF depsChanged /\ user.autoApply /\ Len(loaded) > 0 /\ loaded[Len(loaded)] # user.renderedFont
  THEN applyFontToContent(user, loaded[Len(loaded)])
  ELSE user

\* the component calls applyFontToContent(fontFamily)
ApplyFontToContent(fontFamily) ==
  /\ hook.mounted
  /\ hook' = [hook EXCEPT !.user = [applyFontToContent(@, fontFamily) EXCEPT
                                       !.lastExplicit = fontFamily],
                          !.dirty = @ \/ hook.user.currentFont # fontFamily]
  /\ UNCHANGED <<env, loadedFonts, loadingPromises, ops, calls, batches, documentFonts,
                 fontsReady, readyQueue, generated, resizeVars>>

\* the component calls removeFontFromContent()
RemoveFontFromContent ==
  /\ hook.mounted
  /\ hook' = [hook EXCEPT !.user = [removeFontFromContent(@) EXCEPT !.lastExplicit = NoFont],
                          !.dirty = @ \/ hook.user.currentFont # NoFont]
  /\ UNCHANGED <<env, loadedFonts, loadingPromises, ops, calls, batches, documentFonts,
                 fontsReady, readyQueue, generated, resizeVars>>

\* the component that uses useEditorFonts renders and its effects run
EditorFontsRender ==
  /\ hook.mounted
  /\ hook.dirty
  /\ LET depsChanged == hook.replaced \/ hook.user.currentFont # hook.user.renderedFont
         closure == [hook.user EXCEPT !.renderedFont = hook.user.currentFont]
         after == AutoApplyEffect(closure, hook.state.loaded, depsChanged)
     IN hook' = [hook EXCEPT !.dirty = after.currentFont # closure.currentFont,
                             !.effectDue = ~hook.stable, !.replaced = FALSE,
                             !.user = after]
  /\ UNCHANGED <<env, loadedFonts, loadingPromises, ops, calls, batches, documentFonts,
                 fontsReady, readyQueue, generated, resizeVars>>

FontInit ==
  /\ env \in [hasFontFace : BOOLEAN, fontsInDocument : BOOLEAN]
  /\ loadedFonts = <<>>
  /\ loadingPromises = [f \in Families |-> 0]
  /\ ops = <<>>
  /\ calls = <<>>
  /\ batches = <<>>
  /\ documentFonts = {}
  /\ fontsReady = TRUE
  /\ readyQueue = <<>>

BatchesOf(n) == UNION {[1..k -> Descriptors] : k \in 1..n}

FontNext ==
  \/ \E d \in Descriptors, t \in Timeouts :
       /\ calls = <<>> => d.fontFamily = FirstFamily
       /\ LoadFont(d, t)
  \/ \E ds \in BatchesOf(MaxBatchLen), t \in Timeouts :
       /\ calls = <<>> => ds[1].fontFamily = FirstFamily
       /\ LoadFonts(ds, t)
  \/ \E o \in 1..Len(ops), r \in FetchRejections : FetchSettles(o, FALSE, r)
  \/ \E o \in 1..Len(ops) : FetchSettles(o, TRUE, NoReason)
  \/ \E o \in 1..Len(ops) : TimerFires(o)
  \/ FontsBusy
  \/ FontsReady
  \/ \E f \in Families : RemoveFont(f)
  \/ ClearAllFonts

(***************************************************************************)
(* JavaScript numbers.  n/d with d > 0 is the finite value n/d in lowest    *)
(* terms; 1/0 and -1/0 are Infinity and -Infinity; 0/0 is NaN.  Arithmetic  *)
(* is exact: the rounding error of IEEE doubles is not modelled.            *)
(***************************************************************************)
RECURSIVE GCD(_, _)
GCD(a, b) == IF b = 0 THEN a ELSE GCD(b, a % b)
Abs(x) == IF x < 0 THEN -x ELSE x
Sign(x) == IF x > 0 THEN 1 ELSE IF x < 0 THEN -1 ELSE 0
Norm(n, d) ==
  IF d = 0 THEN [n |-> Sign(n), d |-> 0]
  ELSE LET g == GCD(Abs(n), Abs(d)) IN [n |-> (Sign(d) * n) \div g, d |-> Abs(d) \div g]

Num(i) == [n |-> i, d |-> 1]
NaN == [n |-> 0, d |-> 0]
Infinity == [n |-> 1, d |-> 0]
\* null / undefined where a number is expected
Null == [n |-> 0, d |-> -1]

IsNaN(a) == a.d = 0 /\ a.n = 0
IsFinite(a) == a.d > 0
Neg(a) == [n |-> -a.n, d |-> a.d]
Add(a, b) ==
  IF IsNaN(a) \/ IsNaN(b) THEN NaN
  ELSE IF a.d = 0 THEN (IF b.d = 0 /\ b.n # a.n THEN NaN ELSE a)
  ELSE IF b.d = 0 THEN b
  ELSE Norm(a.n * b.d + b.n * a.d, a.d * b.d)
Sub(a, b) == Add(a, Neg(b))
Mul(a, b) == Norm(a.n * b.n, a.d * b.d)
Inv(b) ==
  IF b.d = 0 THEN (IF b.n = 0 THEN NaN ELSE Num(0))
  ELSE IF b.n = 0 THEN Infinity
  ELSE Norm(b.d, b.n)
Div(a, b) == Mul(a, Inv(b))
Less(a, b) ==
  IF IsNaN(a) \/ IsNaN(b) THEN FALSE
  ELSE IF a.d = 0 THEN a.n < 0 /\ ~(b.d = 0 /\ b.n < 0)
  ELSE IF b.d = 0 THEN b.n > 0
  ELSE a.n * b.d < b.n * a.d
MathMax(a, b) == IF IsNaN(a) \/ IsNaN(b) THEN NaN ELSE IF Less(a, b) THEN b ELSE a
MathMin(a, b) == IF IsNaN(a) \/ IsNaN(b) THEN NaN ELSE IF Less(b, a) THEN b ELSE a
MathAbs(a) == [n |-> Abs(a.n), d |-> a.d]
\* Math.round: the nearest integer, halves towards +Infinity
MathRound(a) == IF a.d = 0 THEN a ELSE Num((2 * a.n + a.d) \div (2 * a.d))
\* the truthiness of a number-or-null
Truthy(v) == v # Null /\ ~IsNaN(v) /\ v.n # 0
\* v || dflt
OrElse(v, dflt) == IF Truthy(v) THEN v ELSE dflt

(***************************************************************************)
(* ImageResize                                                             *)
(***************************************************************************)
MinSize == 50
MaxWidth == 600
DefaultWidth == 300
DefaultHeight == 200

MaxGestures == 1

Handles == {"nw", "n", "ne", "e", "se", "s", "sw", "w"}
CornerHandles == {"se", "sw", "ne", "nw"}
NoHandle == "null"

\* inputs of the model: pointer coordinates, the attributes the node is created
\* with, and the intrinsic size of the picture
PointerXs == {Num(-60), Num(150)}
PointerYs == {Num(100), Num(160)}
\* where the button goes down
Anchors == {[clientX |-> Num(100), clientY |-> Num(100)]}
InitialAttrs ==
  { [width |-> Null, height |-> Null],
    [width |-> Num(200), height |-> Num(100)] }
Pictures ==
  { [naturalWidth |-> Num(400), naturalHeight |-> Num(200)],
    [naturalWidth |-> Num(900), naturalHeight |-> Num(700)] }

Size(w, h) == [width |-> w, height |-> h]
NoCommit == [width |-> Null, height |-> Null, made |-> FALSE]
Commit(w, h) == [width |-> w, height |-> h, made |-> TRUE]

\* the useState initial values
InitialState(nodeAttrs) ==
  [isResizing |-> FALSE,
   resizeHandle |-> NoHandle,
   dimensions |-> Size(OrElse(nodeAttrs.width, Num(DefaultWidth)),
                       OrElse(nodeAttrs.height, Num(DefaultHeight))),
   startPos |-> [x |-> Num(0), y |-> Num(0)],
   startDimensions |-> Size(Num(0), Num(0)),
   aspectRatio |-> Num(1),
   showDimensions |-> FALSE]

\* what a render (and the closures it creates) sees
View(st, nodeAttrs, sel) == [st |-> st, attrs |-> nodeAttrs, selected |-> sel]

\* handleImageLoad, with the closure `view` of the render that created it
HandleImageLoad(view, st, img) ==
  LET ratio == Div(img.naturalWidth, img.naturalHeight)
      newWidth == MathMin(img.naturalWidth, Num(MaxWidth))
      newHeight == Div(newWidth, ratio)
  IN IF ~Truthy(view.attrs.width) /\ ~Truthy(view.attrs.height)
     THEN [st |-> [st EXCEPT !.aspectRatio = ratio, !.dimensions = Size(newWidth, newHeight)],
           commit |-> Commit(newWidth, newHeight)]
     ELSE [st |-> [st EXCEPT !.aspectRatio = ratio], commit |-> NoCommit]

\* handleMouseDown(e, handle)
HandleMouseDown(view, st, handle, e) ==
  [st EXCEPT !.isResizing = TRUE,
             !.resizeHandle = handle,
             !.startPos = [x |-> e.clientX, y |-> e.clientY],
             !.startDimensions = view.st.dimensions,
             !.showDimensions = TRUE]

\* a shift-key adjustment in which the width always drives
NewSize_WidthAlwaysDrives(resizeHandle, startDimensions, aspectRatio, deltaX, deltaY, shiftKey) ==
  LET w0 == startDimensions.width
      h0 == startDimensions.height
      floor == Num(MinSize)
      sx == IF resizeHandle \in {"se", "ne", "e"} THEN deltaX ELSE Neg(deltaX)
      sy == IF resizeHandle \in {"se", "sw", "s"} THEN deltaY ELSE Neg(deltaY)
      newWidth == MathMax(floor, Add(w0, sx))
      newHeight == MathMax(floor, Add(h0, sy))
  IN IF resizeHandle \in {"e", "w"} THEN Size(newWidth, Div(newWidth, aspectRatio))
     ELSE IF resizeHandle \in {"n", "s"} THEN Size(Mul(newHeight, aspectRatio), newHeight)
     ELSE IF shiftKey THEN Size(newWidth, Div(newWidth, aspectRatio))
     ELSE Size(newWidth, newHeight)

\* a switch whose edge handles change one axis and leave the other at the
\* dimension the gesture started from
NewSize_EdgesUnlocked(resizeHandle, startDimensions, aspectRatio, deltaX, deltaY, shiftKey) ==
  LET w0 == startDimensions.width
      h0 == startDimensions.height
      floor == Num(MinSize)
      sx == IF resizeHandle \in {"se", "ne", "e"} THEN deltaX ELSE Neg(deltaX)
      sy == IF resizeHandle \in {"se", "sw", "s"} THEN deltaY ELSE Neg(deltaY)
      bySwitch ==
        Size(IF resizeHandle \in {"n", "s"} THEN w0 ELSE MathMax(floor, Add(w0, sx)),
             IF resizeHandle \in {"e", "w"} THEN h0 ELSE MathMax(floor, Add(h0, sy)))
  IN IF shiftKey /\ resizeHandle \in CornerHandles
     THEN IF Less(MathAbs(deltaY), MathAbs(deltaX))
          THEN Size(bySwitch.width, Div(bySwitch.width, aspectRatio))
          ELSE Size(Mul(bySwitch.height, aspectRatio), bySwitch.height)
     ELSE bySwitch

\* the switch of handleMouseMove and the shift-key adjustment that follows it
NewSize(resizeHandle, startDimensions, aspectRatio, deltaX, deltaY, shiftKey) ==
  LET w0 == startDimensions.width
      h0 == startDimensions.height
      floor == Num(MinSize)
      bySwitch ==
        CASE resizeHandle = "se" ->
               Size(MathMax(floor, Add(w0, deltaX)), MathMax(floor, Add(h0, deltaY)))
          [] resizeHandle = "sw" ->
               Size(MathMax(floor, Sub(w0, deltaX)), MathMax(floor, Add(h0, deltaY)))
          [] resizeHandle = "ne" ->
               Size(MathMax(floor, Add(w0, deltaX)), MathMax(floor, Sub(h0, deltaY)))
          [] resizeHandle = "nw" ->
               Size(MathMax(floor, Sub(w0, deltaX)), MathMax(floor, Sub(h0, deltaY)))
          [] resizeHandle = "e" ->
               LET newWidth == MathMax(floor, Add(w0, deltaX))
               IN Size(newWidth, Div(newWidth, aspectRatio))
          [] resizeHandle = "w" ->
               LET newWidth == MathMax(floor, Sub(w0, deltaX))
               IN Size(newWidth, Div(newWidth, aspectRatio))
          [] resizeHandle = "n" ->
               LET newHeight == MathMax(floor, Sub(h0, deltaY))
               IN Size(Mul(newHeight, aspectRatio), newHeight)
          [] resizeHandle = "s" ->
               LET newHeight == MathMax(floor, Add(h0, deltaY))
               IN Size(Mul(newHeight, aspectRatio), newHeight)
          [] OTHER -> Size(w0, h0)
  IN IF shiftKey /\ resizeHandle \in CornerHandles
     THEN IF Less(MathAbs(deltaY), MathAbs(deltaX))
          THEN Size(bySwitch.width, Div(bySwitch.width, aspectRatio))
          ELSE Size(Mul(bySwitch.height, aspectRatio), bySwitch.height)
     ELSE bySwitch

\* a handleMouseMove that applies the deltas to the current dimensions instead
\* of the dimensions the gesture started from
HandleMouseMove_FromCurrent(closure, st, e) ==
  IF ~closure.st.isResizing \/ closure.st.resizeHandle = NoHandle THEN st
  ELSE LET deltaX == Sub(e.clientX, closure.st.startPos.x)
           deltaY == Sub(e.clientY, closure.st.startPos.y)
           new == NewSize(closure.st.resizeHandle, st.dimensions,
                          closure.st.aspectRatio, deltaX, deltaY, e.shiftKey)
       IN [st EXCEPT !.dimensions = Size(MathRound(new.width), MathRound(new.height))]

\* handleMouseMove, with the closure of the effect run that registered it
HandleMouseMove(closure, st, e) ==
  IF ~closure.st.isResizing \/ closure.st.resizeHandle = NoHandle THEN st
  ELSE LET deltaX == Sub(e.clientX, closure.st.startPos.x)
           deltaY == Sub(e.clientY, closure.st.startPos.y)
           new == NewSize(closure.st.resizeHandle, closure.st.startDimensions,
                          closure.st.aspectRatio, deltaX, deltaY, e.shiftKey)
       IN [st EXCEPT !.dimensions = Size(MathRound(new.width), MathRound(new.height))]

\* a handleMouseUp that forgets to leave the resizing state
HandleMouseUp_KeepsResizing(closure, st) ==
  IF closure.st.isResizing
  THEN [st |-> [st EXCEPT !.resizeHandle = NoHandle, !.showDimensions = FALSE],
        commit |-> Commit(closure.st.dimensions.width, closure.st.dimensions.height)]
  ELSE [st |-> st, commit |-> NoCommit]

\* handleMouseUp, with the closure of the effect run that registered it
HandleMouseUp(closure, st) ==
  IF closure.st.isResizing
  THEN [st |-> [st EXCEPT !.isResizing = FALSE, !.resizeHandle = NoHandle,
                          !.showDimensions = FALSE],
        commit |-> Commit(closure.st.dimensions.width, closure.st.dimensions.height)]
  ELSE [st |-> st, commit |-> NoCommit]

\* handleKeyDown for Ctrl+0, with the closure of the effect run that registered it
HandleKeyDown(closure, st, img) ==
  IF ~closure.selected THEN [st |-> st, commit |-> NoCommit]
  ELSE LET newWidth == MathMin(img.naturalWidth, Num(MaxWidth))
           newHeight == Div(newWidth, closure.st.aspectRatio)
       IN [st |-> [st EXCEPT !.dimensions = Size(newWidth, newHeight)],
           commit |-> Commit(newWidth, newHeight)]

\* updateAttributes({width, height})
UpdateAttributes(nodeAttrs, commit) ==
  IF commit.made THEN [width |-> commit.width, height |-> commit.height] ELSE nodeAttrs

\* mouse listeners that stay on the document for the life of the component
MouseListening_Always == TRUE

\* the effects register the mouse listeners only while isResizing, and the
\* keydown listener only while selected
MouseListening == effect.st.isResizing
KeyListening == effect.selected

\* the <img> element reports 0 x 0 until the picture has loaded
ImageElement ==
  IF image.loaded THEN [naturalWidth |-> image.naturalWidth, naturalHeight |-> image.naturalHeight]
  ELSE [naturalWidth |-> Num(0), naturalHeight |-> Num(0)]

\* React renders and runs the effects before the next event when the update
\* comes from a discrete event (mousedown, mouseup, keydown, click)
FlushSync(st, nodeAttrs, sel) ==
  /\ rendered' = View(st, nodeAttrs, sel)
  /\ effect' = View(st, nodeAttrs, sel)

\* the picture finishes loading: onLoad
ImageLoad ==
  /\ ~image.loaded
  /\ image' = [image EXCEPT !.loaded = TRUE]
  /\ LET r == HandleImageLoad(rendered, react, [naturalWidth |-> image.naturalWidth,
                                                naturalHeight |-> image.naturalHeight])
     IN /\ react' = r.st
        /\ attrs' = UpdateAttributes(attrs, r.commit)
        /\ gesture' = [gesture EXCEPT !.lastCommit = IF r.commit.made THEN "load" ELSE @]
  /\ UNCHANGED <<rendered, effect, selected, fontVars>>

\* the node is selected or deselected (a click); not while a button is held
SetSelected(sel) ==
  /\ ~gesture.active
  /\ selected # sel
  /\ selected' = sel
  /\ FlushSync(react, attrs, sel)
  /\ UNCHANGED <<react, attrs, image, gesture, fontVars>>

\* mousedown on a resize handle; the handles exist only in a render with `selected`
MouseDown(handle, e) ==
  /\ rendered.selected
  /\ ~gesture.active
  /\ gesture.begun < MaxGestures
  /\ LET st == HandleMouseDown(rendered, react, handle, e)
     IN /\ react' = st
        /\ FlushSync(st, attrs, selected)
        /\ gesture' = [gesture EXCEPT !.active = TRUE, !.begun = @ + 1, !.updates = 0,
                                      !.lastUpdate = st.startDimensions]
  /\ UNCHANGED <<attrs, image, selected, fontVars>>

\* a mousemove event reaches the document; the re-render it causes is deferred
MouseMove(e) ==
  /\ IF MouseListening
     THEN /\ react' = HandleMouseMove(effect, react, e)
          /\ gesture' = [gesture EXCEPT !.updates = IF @ = 0 THEN 1 ELSE @,
                                        !.lastUpdate = react'.dimensions]
     ELSE UNCHANGED <<react, gesture>>
  /\ UNCHANGED <<rendered, effect, attrs, image, selected, fontVars>>

\* a mouseup event reaches the document
MouseUp ==
  /\ LET r == IF MouseListening THEN HandleMouseUp(effect, react)
              ELSE [st |-> react, commit |-> NoCommit]
         newAttrs == UpdateAttributes(attrs, r.commit)
     IN /\ react' = r.st
        /\ attrs' = newAttrs
        /\ IF MouseListening THEN FlushSync(r.st, newAttrs, selected)
                             ELSE UNCHANGED <<rendered, effect>>
        /\ gesture' = [gesture EXCEPT
             !.active = FALSE,
             !.upCommits = IF r.commit.made THEN @ + 1 ELSE @,
             !.lastCommit = IF r.commit.made THEN "mouseup" ELSE @,
             !.committed = IF r.commit.made THEN Size(r.commit.width, r.commit.height) ELSE @,
             !.expected = IF r.commit.made THEN gesture.lastUpdate ELSE @,
             !.idleUp = IF gesture.active \/ @ = "changed" THEN @
                        ELSE IF r.st # react \/ newAttrs # attrs THEN "changed" ELSE "noop"]
  /\ UNCHANGED <<image, selected, fontVars>>

\* Ctrl+0 reaches the document
CtrlZero ==
  /\ LET r == IF KeyListening THEN HandleKeyDown(effect, react, ImageElement)
              ELSE [st |-> react, commit |-> NoCommit]
         newAttrs == UpdateAttributes(attrs, r.commit)
     IN /\ react' = r.st
        /\ attrs' = newAttrs
        /\ IF KeyListening THEN FlushSync(r.st, newAttrs, selected)
                           ELSE UNCHANGED <<rendered, effect>>
        /\ gesture' = [gesture EXCEPT !.lastCommit = IF r.commit.made THEN "reset" ELSE @]
  /\ UNCHANGED <<image, selected, fontVars>>

\* React commits a deferred render
Render ==
  /\ rendered # View(react, attrs, selected)
  /\ rendered' = View(react, attrs, selected)
  /\ UNCHANGED <<react, effect, attrs, image, selected, gesture, fontVars>>

\* React runs the effects of the last render: the listeners are re-registered
\* with fresh closures
FlushEffects ==
  /\ effect # rendered
  /\ effect' = rendered
  /\ UNCHANGED <<react, rendered, attrs, image, selected, gesture, fontVars>>

ResizeInit ==
  /\ attrs \in InitialAttrs
  /\ \E pic \in Pictures :
       image = [naturalWidth |-> pic.naturalWidth, naturalHeight |-> pic.naturalHeight,
                loaded |-> FALSE]
  /\ selected = FALSE
  /\ react = InitialState(attrs)
  /\ rendered = View(react, attrs, selected)
  /\ effect = rendered
  /\ gesture = [active |-> FALSE, begun |-> 0, updates |-> 0, upCommits |-> 0,
                lastUpdate |-> Size(Num(0), Num(0)), lastCommit |-> "none",
                committed |-> Size(Num(0), Num(0)), expected |-> Size(Num(0), Num(0)),
                idleUp |-> "none"]

PointerEvents == [clientX : PointerXs, clientY : PointerYs, shiftKey : BOOLEAN]

ResizeNext ==
  \/ ImageLoad
  \/ \E sel \in BOOLEAN : SetSelected(sel)
  \/ \E h \in Handles, e \in Anchors : MouseDown(h, e)
  \/ \E e \in PointerEvents : MouseMove(e)
  \/ MouseUp
  \/ CtrlZero
  \/ Render
  \/ FlushEffects

(***************************************************************************)
(* Specifications: the font cache with no image mounted, and one mounted   *)
(* image with the font cache untouched.                                    *)
(***************************************************************************)
NoImage ==
  /\ attrs = [width |-> Null, height |-> Null]
  /\ image = [naturalWidth |-> Num(0), naturalHeight |-> Num(0), loaded |-> FALSE]
  /\ selected = FALSE
  /\ react = InitialState(attrs)
  /\ rendered = View(react, attrs, selected)
  /\ effect = rendered
  /\ gesture = [active |-> FALSE, begun |-> 0, updates |-> 0, upCommits |-> 0,
                lastUpdate |-> Size(Num(0), Num(0)), lastCommit |-> "none",
                committed |-> Size(Num(0), Num(0)), expected |-> Size(Num(0), Num(0)),
                idleUp |-> "none"]

NoFontCalls ==
  /\ env = [hasFontFace |-> TRUE, fontsInDocument |-> TRUE]
  /\ loadedFonts = <<>>
  /\ loadingPromises = [f \in Families |-> 0]
  /\ ops = <<>>
  /\ calls = <<>>
  /\ batches = <<>>
  /\ documentFonts = {}
  /\ fontsReady = TRUE
  /\ readyQueue = <<>>

Init == FontInit /\ NoImage /\ generated = NothingGenerated /\ hook = NotMounted

Next == FontNext

Spec == Init /\ [][Next]_vars

ResizeSpecInit == ResizeInit /\ NoFontCalls /\ generated = NothingGenerated /\ hook = NotMounted

ResizeSpec == ResizeSpecInit /\ [][ResizeNext]_vars

\* fonts are loaded one by one while source strings and CSS rules are generated
FormatNext ==
  \/ \E d \in Descriptors, t \in Timeouts :
       /\ calls = <<>> => d.fontFamily = FirstFamily
       /\ LoadFont(d, t)
  \/ \E o \in 1..Len(ops) : FetchSettles(o, TRUE, NoReason)
  \/ \E o \in 1..Len(ops) : TimerFires(o)
  \/ FontsBusy
  \/ FontsReady
  \/ \E src \in Sources, format \in Formats : CreateFontSource(src, format)
  \/ \E fontDefinition \in CSSDefinitions : CreateCSSFontFace(fontDefinition)

FormatSpec == Init /\ [][FormatNext]_vars

\* a component that uses the hook, and the platform
HookSpecInit == FontInit /\ NoImage /\ generated = NothingGenerated /\ HookInit

HookNext ==
  \/ AutoLoadEffect
  \/ HookRender
  \/ \E o \in 1..Len(ops), r \in FetchRejections : FetchSettles(o, FALSE, r)
  \/ \E o \in 1..Len(ops) : FetchSettles(o, TRUE, NoReason)
  \/ \E o \in 1..Len(ops) : TimerFires(o)
  \/ FontsBusy
  \/ FontsReady

HookSpec == HookSpecInit /\ [][HookNext]_vars

\* a component that mounted without initial fonts and drives the hook through
\* the functions it returns; nothing else uses the cache
ApiInit ==
  /\ FontInit /\ NoImage /\ generated = NothingGenerated
  /\ hook = [NotMounted EXCEPT !.mounted = TRUE]

ApiNext ==
  \/ \E d \in Descriptors :
       /\ calls = <<>> => d.fontFamily = FirstFamily
       /\ HookLoadFont(d)
  \/ \E ds \in BatchesOf(MaxBatchLen) :
       /\ calls = <<>> => ds[1].fontFamily = FirstFamily
       /\ HookLoadFonts(ds)
  \/ \E f \in Families : HookRemoveFont(f)
  \/ HookClearAllFonts
  \/ HookRender
  \/ \E o \in 1..Len(ops), r \in FetchRejections : FetchSettles(o, FALSE, r)
  \/ \E o \in 1..Len(ops) : FetchSettles(o, TRUE, NoReason)
  \/ \E o \in 1..Len(ops) : TimerFires(o)
  \/ FontsBusy
  \/ FontsReady

ApiSpec == ApiInit /\ [][ApiNext]_vars

\* the component only loads fonts, and every timer that was started fires
LoadOnlyNext ==
  \/ \E d \in Descriptors :
       /\ calls = <<>> => d.fontFamily = FirstFamily
       /\ HookLoadFont(d)
  \/ \E ds \in BatchesOf(MaxBatchLen) :
       /\ calls = <<>> => ds[1].fontFamily = FirstFamily
       /\ HookLoadFonts(ds)
  \/ HookRender
  \/ \E o \in 1..Len(ops), r \in FetchRejections : FetchSettles(o, FALSE, r)
  \/ \E o \in 1..Len(ops) : FetchSettles(o, TRUE, NoReason)
  \/ \E o \in 1..Len(ops) : TimerFires(o)
  \/ FontsBusy
  \/ FontsReady

\* setTimeout callbacks run: weak fairness of TimerFires(o), written through
\* its enabling condition (TimerFires(o) is enabled exactly when the timer of
\* operation o is pending, and taking it ends that)
TimerPending(o) == o <= Len(ops) /\ ops[o].timer = "pending" /\ ops[o].pc # "returned"
TimersFire == \A o \in 1..MaxCalls : []<>~TimerPending(o)

\* React commits the renders it has scheduled
RendersHappen == WF_vars(HookRender)

LoadOnlySpec == ApiInit /\ [][LoadOnlyNext]_vars /\ TimersFire /\ RendersHappen

\* a component that uses useZenithEditor (no customFonts, a stable
\* onFontLoadError) and loads every family at most once, through the loadFont
\* and loadFonts the hook returns
Requested(f) ==
  \/ \E i \in 1..Len(hook.state.loading) : hook.state.loading[i] = f
  \/ \E i \in 1..Len(hook.state.loaded) : hook.state.loaded[i] = f
  \/ \E i \in 1..Len(hook.state.failed) : hook.state.failed[i].fontFamily = f

ZenithNext ==
  \/ \E d \in Descriptors :
       /\ calls = <<>> => d.fontFamily = FirstFamily
       /\ ~Requested(d.fontFamily)
       /\ HookLoadFont(d)
  \/ \E ds \in BatchesOf(MaxBatchLen) :
       /\ ds[1].fontFamily = FirstFamily
       /\ \A i \in 1..Len(ds) : ~Requested(ds[i].fontFamily) /\ (i > 1 => ds[i] # ds[1])
       /\ HookLoadFonts(ds)
  \/ ZenithRender
  \/ \E o \in 1..Len(ops), r \in FetchRejections : FetchSettles(o, FALSE, r)
  \/ \E o \in 1..Len(ops) : FetchSettles(o, TRUE, NoReason)
  \/ \E o \in 1..Len(ops) : TimerFires(o)
  \/ FontsBusy
  \/ FontsReady

ZenithSpec == ApiInit /\ [][ZenithNext]_vars

\* a component that uses useEditorFonts without initial fonts, with and
\* without autoApply, on a platform that can load fonts
EditorFontsInit ==
  /\ FontInit /\ NoImage /\ generated = NothingGenerated
  /\ isSupported
  /\ \E autoApply \in BOOLEAN :
       hook = [NotMounted EXCEPT !.mounted = TRUE, !.user.autoApply = autoApply]

EditorFontsNext ==
  \/ \E d \in Descriptors :
       /\ calls = <<>> => d.fontFamily = FirstFamily
       /\ HookLoadFont(d)
  \/ \E f \in Families : ApplyFontToContent(f)
  \/ RemoveFontFromContent
  \/ EditorFontsRender
  \/ \E o \in 1..Len(ops), r \in FetchRejections : FetchSettles(o, FALSE, r)
  \/ \E o \in 1..Len(ops) : FetchSettles(o, TRUE, NoReason)
  \/ \E o \in 1..Len(ops) : TimerFires(o)
  \/ FontsBusy
  \/ FontsReady

EditorFontsSpec == EditorFontsInit /\ [][EditorFontsNext]_vars

\* pictures whose file is corrupt: the element reports a zero natural height,
\* a zero natural width, or both
CorruptPictures ==
  { [naturalWidth |-> Num(400), naturalHeight |-> Num(0)],
    [naturalWidth |-> Num(0), naturalHeight |-> Num(300)],
    [naturalWidth |-> Num(0), naturalHeight |-> Num(0)] }

\* the component mounted on a corrupt picture
CorruptInit ==
  /\ attrs \in InitialAttrs
  /\ \E pic \in CorruptPictures :
       image = [naturalWidth |-> pic.naturalWidth, naturalHeight |-> pic.naturalHeight,
                loaded |-> FALSE]
  /\ selected = FALSE
  /\ react = InitialState(attrs)
  /\ rendered = View(react, attrs, selected)
  /\ effect = rendered
  /\ gesture = [active |-> FALSE, begun |-> 0, updates |-> 0, upCommits |-> 0,
                lastUpdate |-> Size(Num(0), Num(0)), lastCommit |-> "none",
                committed |-> Size(Num(0), Num(0)), expected |-> Size(Num(0), Num(0)),
                idleUp |-> "none"]

CorruptSpecInit == CorruptInit /\ NoFontCalls /\ generated = NothingGenerated /\ hook = NotMounted

CorruptSpec == CorruptSpecInit /\ [][ResizeNext]_vars

(***************************************************************************)
(* Font cache: properties                                                  *)
(***************************************************************************)
Resolved(c) == calls[c].outcome.kind \in {"fulfilled", "rejected"}
InFlight(o) == ops[o].pc \in {"race", "ready"}
InFlightFor(f) == {o \in LiveOps : ops[o].family = f /\ InFlight(o)}

\* C1: a loadFont call made for a family while an earlier loadFont call for that
\* family is still unsettled starts no fetch of its own: it hangs on the same
\* performFontLoad operation as the earlier call, and once both have settled
\* they hold the same result.
C1_ConcurrentLoadsShareOneFetch ==
  \A c2 \in LiveCalls(calls) : \A c1 \in calls[c2].concurrentWith \cap LiveCalls(calls) :
    /\ calls[c2].kind # "started"
    /\ calls[c2].op = calls[c1].op
    /\ Resolved(c1) /\ Resolved(c2) => calls[c1].outcome = calls[c2].outcome

\* C2: at any moment at most one performFontLoad operation per family has
\* started and not yet settled.
C2_AtMostOneInFlightPerFamily ==
  \A f \in Families : Cardinality(InFlightFor(f)) <= 1

\* C6: when the timer wins the race of an operation, loadFont resolves with
\* status 'timeout' and an error containing "timeout" (whatever the timeout
\* value), and that load does not record the family in loadedFonts.
TimeoutValues == {0, 1, ShortTimeout, 999, DefaultTimeout, 30000}
C6_TimerFirstYieldsTimeout ==
  /\ \A t \in TimeoutValues : Includes(TimeoutMessage(t), TimeoutWord)
  /\ \A o \in LiveOps : ops[o].raceBy = "timer" =>
       /\ ops[o].pc = "returned"
       /\ ops[o].outcome.kind = "fulfilled"
       /\ ops[o].outcome.value.status = "timeout"
       /\ Includes(ops[o].outcome.value.error, TimeoutWord)
       /\ ~ops[o].stored
       /\ \A c \in LiveCalls(calls) : calls[c].op = o => calls[c].outcome = ops[o].outcome
C6_Witness ==
  \E o \in LiveOps : /\ ops[o].raceBy = "timer"
                     /\ ops[o].fetch = "pending"
                     /\ calls[ops[o].call].outcome.kind = "fulfilled"

\* C7: once the timer of an operation has fired, the loadFont call that started
\* the operation has resolved.
C7_ResolvedWhenTimerFires ==
  \A o \in LiveOps : ops[o].timer = "fired" => ops[o].pc = "returned"

\* C8: when FontFace.load() rejects with an Error before the timer fires,
\* loadFont resolves with status 'error' and the Error's message.
C8_FetchRejectionYieldsError ==
  \A o \in LiveOps :
    ops[o].raceBy = "fetch" /\ ops[o].race = "rejected" /\ ops[o].raceReason.isError =>
      /\ ops[o].pc = "returned"
      /\ ops[o].outcome.kind = "fulfilled"
      /\ ops[o].outcome.value.status = "error"
      /\ ops[o].outcome.value.error = ops[o].raceReason.message

\* C9: no loadFont or loadFonts promise rejects; every result has status
\* loaded, error or timeout, and every result that is not loaded has an error.
WellFormedResult(r) ==
  /\ r.status \in {"loaded", "error", "timeout"}
  /\ r.status # "loaded" => "error" \in DOMAIN r
C9_LoadNeverRejects ==
  /\ \A c \in LiveCalls(calls) :
       /\ calls[c].outcome.kind # "rejected"
       /\ calls[c].outcome.kind = "fulfilled" => WellFormedResult(calls[c].outcome.value)
  /\ \A b \in LiveBatches :
       /\ batches[b].outcome.kind # "rejected"
       /\ batches[b].outcome.kind = "fulfilled" =>
            /\ Len(batches[b].outcome.value) = Len(batches[b].calls)
            /\ \A i \in 1..Len(batches[b].calls) :
                 WellFormedResult(batches[b].outcome.value[i])
C9_Witness ==
  \E b \in LiveBatches :
    /\ batches[b].outcome.kind = "fulfilled"
    /\ \E i \in 1..Len(batches[b].calls) : batches[b].outcome.value[i].status = "error"
    /\ \E i \in 1..Len(batches[b].calls) : batches[b].outcome.value[i].status = "timeout"

\* C10: where the platform lacks FontFace or document.fonts, every loadFont call
\* resolves at once with status 'error' and a non-empty message, no
\* performFontLoad operation is ever started, nothing is tracked as loading and
\* loadedFonts and document.fonts stay as they were (empty).
C10_UnsupportedEnvironment ==
  ~(env.hasFontFace /\ env.fontsInDocument) =>
    /\ ops = <<>>
    /\ \A f \in Families : loadingPromises[f] = 0
    /\ loadedFonts = <<>>
    /\ documentFonts = {}
    /\ \A c \in LiveCalls(calls) :
         /\ calls[c].outcome.kind = "fulfilled"
         /\ calls[c].outcome.value.status = "error"
         /\ Len(calls[c].outcome.value.error) > 0
C10_Witness ==
  /\ ~(env.hasFontFace /\ env.fontsInDocument)
  /\ Len(calls) = MaxCalls
  /\ \E c \in LiveCalls(calls) : calls[c].outcome.value.status = "error"

\* the loadFont calls that have just resolved with status 'loaded'
ResolvedLoaded ==
  {c \in LiveCalls(calls) : /\ calls[c].outcome.kind = "fulfilled"
                            /\ calls[c].outcome.value.status = "loaded"}
Occurrences(seq, x) == Cardinality({i \in 1..Len(seq) : seq[i] = x})

\* C11: when a loadFont call resolves with status 'loaded', the FontFace that
\* was fetched for the family is in document.fonts, isFontLoaded(family) is true
\* and getLoadedFonts() holds the family exactly once.
C11_LoadedIsRegistered ==
  \A c \in ResolvedLoaded :
    /\ isFontLoaded(calls[c].family)
    /\ Occurrences(getLoadedFonts, calls[c].family) = 1
    /\ PerformFace(MapGet(loadedFonts, calls[c].family).op) \in documentFonts
    /\ calls[c].op # 0 => PerformFace(calls[c].op) \in documentFonts
\* a call that started the fetch and a call that joined it have both resolved
\* with status 'loaded'
C11_Witness ==
  /\ \E c \in ResolvedLoaded : calls[c].kind = "attached"
  /\ \E c \in ResolvedLoaded : calls[c].kind = "started"

\* C12: a loadFont call for a family that is in loadedFonts resolves at once
\* with status 'loaded'; it starts no performFontLoad for the family, adds
\* nothing to document.fonts and leaves loadedFonts and the family's
\* loadingPromises entry as they were.
C12_LoadedFamilyServedFromRegistry ==
  [][\A c \in (Len(calls) + 1)..Len(calls') :
       isFontLoaded(calls'[c].family) =>
         /\ calls'[c].outcome = LoadedResult(calls'[c].family)
         /\ calls'[c].op = 0
         /\ \A o \in (Len(ops) + 1)..Len(ops') : ops'[o].family # calls'[c].family
         /\ documentFonts' = documentFonts
         /\ loadedFonts' = loadedFonts
         /\ loadingPromises'[calls'[c].family] = loadingPromises[calls'[c].family]]_vars
\* a call has been answered from the registry
C12_Witness ==
  \E c \in ResolvedLoaded : /\ calls[c].kind = "cached"
                            /\ isFontLoaded(calls[c].family)
                            /\ Len(ops) = 1

\* the loadFont calls that hung on a performFontLoad operation and have just settled
SettledByOperation ==
  {c \in LiveCalls(calls) : calls[c].op # 0 /\ calls[c].outcome.kind = "fulfilled"}
\* what a loadFont call for fontFamily made now would be: started, attached, cached, unsupported
KindOfLoadNow(fontFamily) ==
  LET S == LoadFontSync(CacheState, [fontFamily |-> fontFamily], DefaultTimeout)
  IN S.calls[Len(S.calls)].kind

\* C13: when a load settles, whatever its outcome, its family has no
\* loadingPromises entry; after an 'error' or 'timeout' outcome a new loadFont
\* call for the family starts a new performFontLoad; and no performFontLoad is
\* ever started other than by a loadFont call.
C13_SettledFamilyCanBeRetried ==
  /\ \A c \in SettledByOperation :
       /\ loadingPromises[calls[c].family] = 0
       /\ calls[c].outcome.value.status \in {"error", "timeout"} =>
            KindOfLoadNow(calls[c].family) = "started"
  /\ Len(ops) <= Len(calls)

\* C14: removeFont(F), called in any reachable state, returns true exactly when
\* F is in loadedFonts at the call; after it isFontLoaded(F) is false; and for
\* a family that is not in loadedFonts (never loaded, failed, or only being
\* loaded) it returns false and changes nothing.
C14_RemoveReportsWhetherLoaded ==
  \A f \in Families :
    LET r == removeFont(CacheState, f)
    IN /\ r.returned = isFontLoaded(f)
       /\ ~MapHas(r.S.loadedFonts, f)
       /\ ~isFontLoaded(f) => r.S = CacheState
\* one family is loaded and removeFont removes it, while another is only being
\* loaded and removeFont leaves it alone
C14_Witness ==
  \E f, g \in Families :
    /\ isFontLoaded(f)
    /\ removeFont(CacheState, f).returned
    /\ removeFont(CacheState, f).S.loadedFonts = <<>>
    /\ ~isFontLoaded(g)
    /\ loadingPromises[g] # 0
    /\ ~removeFont(CacheState, g).returned

\* C15: when removeFont(F) returns true for a family that a load registered,
\* the FontFace which that load added to document.fonts is no longer in
\* document.fonts.
C15_RemoveUnregistersLoadedFace ==
  \A f \in Families :
    isFontLoaded(f) =>
      LET r == removeFont(CacheState, f)
          registered == PerformFace(MapGet(loadedFonts, f).op)
      IN r.returned => registered \notin r.S.documentFonts

\* C16: after clearAllFonts(), called in any reachable state, getLoadedFonts()
\* is empty, isFontLoaded is false for every family and no family has a
\* loadingPromises entry; and an operation that was in flight when
\* clearAllFonts ran never puts its family into loadedFonts.
C16_ClearEmptiesAndStaysEmpty ==
  /\ LET S == clearAllFonts(CacheState)
     IN /\ MapKeys(S.loadedFonts) = <<>>
        /\ \A f \in Families : ~MapHas(S.loadedFonts, f) /\ S.loadingPromises[f] = 0
  /\ \A o \in LiveOps : ops[o].cleared => ~ops[o].stored

\* C17: a loadFonts promise resolves only when every one of its loadFont calls
\* has settled, and then holds one result per descriptor, in descriptor order,
\* each being the result its own loadFont call produced: a font that fails or
\* times out neither holds back nor alters the results of the others.
C17_LoadManyCollectsEveryResult ==
  \A b \in LiveBatches :
    LET bt == batches[b]
        n == Len(bt.families)
    IN /\ Len(bt.calls) = n /\ Len(bt.values) = n
       /\ \A i \in 1..n :
            bt.calls[i] \in LiveCalls(calls) =>
              /\ calls[bt.calls[i]].family = bt.families[i]
              /\ bt.values[i] = calls[bt.calls[i]].outcome
       /\ bt.outcome.kind # "rejected"
       /\ bt.outcome.kind = "fulfilled" <=> \A i \in 1..n : bt.values[i].kind = "fulfilled"
       /\ bt.outcome.kind = "fulfilled" =>
            /\ Len(bt.outcome.value) = n
            /\ \A i \in 1..n : /\ bt.outcome.value[i] = bt.values[i].value
                                /\ bt.outcome.value[i].fontFamily = bt.families[i]
\* a batch of two fonts has resolved: the first failed, the second loaded and
\* is registered
C17_Witness ==
  \E b \in LiveBatches :
    /\ batches[b].outcome.kind = "fulfilled"
    /\ Len(batches[b].outcome.value) = 2
    /\ batches[b].outcome.value[1].status \in {"error", "timeout"}
    /\ batches[b].outcome.value[2].status = "loaded"
    /\ isFontLoaded(batches[b].families[2])

(***************************************************************************)
(* ImageResize: properties                                                 *)
(***************************************************************************)
\* a >= b as JavaScript evaluates it
AtLeast(a, b) == ~IsNaN(a) /\ ~IsNaN(b) /\ ~Less(a, b)

\* C3: in every resize gesture, whatever the handle, the anchor dimensions, the
\* pointer moves and the shift key, the dimensions computed by an update are
\* at least 50 wide and at least 50 high.
C3_LiveDimensionsAtLeastMinimum ==
  gesture.updates > 0 =>
    /\ AtLeast(gesture.lastUpdate.width, Num(MinSize))
    /\ AtLeast(gesture.lastUpdate.height, Num(MinSize))

\* C4: the dimensions committed at mouseup are those computed by the last
\* mousemove of the gesture, or the anchor dimensions if there was none, for
\* every interleaving of mousemove events, re-renders and the mouseup.
C4_CommitEqualsLastUpdate ==
  gesture.upCommits > 0 => gesture.committed = gesture.expected

\* C5: each gesture (mousedown on a handle followed by mouseup) causes exactly
\* one commit by its mouseup, and a mouseup delivered while no gesture is
\* active commits nothing and changes no state.
C5_OneCommitPerGesture ==
  /\ gesture.upCommits = gesture.begun - (IF gesture.active THEN 1 ELSE 0)
  /\ gesture.idleUp # "changed"

\* a gesture with a move has ended with its commit, and a mouseup has arrived
\* with no gesture active
C5_Witness ==
  /\ gesture.begun = 1
  /\ ~gesture.active
  /\ gesture.updates = 1
  /\ gesture.upCommits = 1
  /\ attrs = gesture.committed
  /\ gesture.idleUp = "noop"

\* the signs with which a corner handle applies deltaX and deltaY
CornerSignX(handle) == IF handle \in {"se", "ne"} THEN Num(1) ELSE Num(-1)
CornerSignY(handle) == IF handle \in {"se", "sw"} THEN Num(1) ELSE Num(-1)
\* aspect ratios a closure may hold
SomeRatios == {Num(2), Norm(1, 2), NaN}
\* the gesture in progress, as the registered mousemove listener sees it
Dragging(handles) == MouseListening /\ effect.st.resizeHandle \in handles

\* C18: with a corner handle and no shift key, a mousemove yields
\* width = round(max(50, anchorW + sx*dx)) and height = round(max(50, anchorH + sy*dy)),
\* (sx, sy) being (+,+) for se, (-,+) for sw, (+,-) for ne and (-,-) for nw and
\* dx, dy the pointer's offsets from where the button went down; the aspect
\* ratio does not enter.
C18_CornerWithoutShift ==
  Dragging(CornerHandles) =>
    \A e \in PointerEvents :
      ~e.shiftKey =>
        LET anchor == effect.st.startDimensions
            handle == effect.st.resizeHandle
            dx == Sub(e.clientX, effect.st.startPos.x)
            dy == Sub(e.clientY, effect.st.startPos.y)
            got == HandleMouseMove(effect, react, e).dimensions
        IN /\ got.width =
                MathRound(MathMax(Num(MinSize), Add(anchor.width, Mul(CornerSignX(handle), dx))))
           /\ got.height =
                MathRound(MathMax(Num(MinSize), Add(anchor.height, Mul(CornerSignY(handle), dy))))
           /\ \A r \in SomeRatios :
                NewSize(handle, anchor, r, dx, dy, FALSE) =
                  NewSize(handle, anchor, effect.st.aspectRatio, dx, dy, FALSE)
\* the handle se, pressed at (100,100) on a 200x100 image, has been dragged to
\* (150,160) and the dimensions are 250x160
C18_Witness ==
  /\ gesture.active /\ gesture.updates = 1
  /\ Dragging({"se"})
  /\ effect.st.startDimensions = Size(Num(200), Num(100))
  /\ effect.st.startPos = [x |-> Num(100), y |-> Num(100)]
  /\ react.dimensions = Size(Num(250), Num(160))
  /\ gesture.lastUpdate = react.dimensions

\* C19: with a corner handle, a mousemove at the very point where the button
\* went down (dx = 0, dy = 0) yields the dimensions the gesture started from,
\* with and without the shift key.
C19_CornerZeroDeltaIsIdentity ==
  Dragging(CornerHandles) =>
    \A shiftKey \in BOOLEAN :
      HandleMouseMove(effect, react, [clientX |-> effect.st.startPos.x,
                                      clientY |-> effect.st.startPos.y,
                                      shiftKey |-> shiftKey]).dimensions
        = effect.st.startDimensions

\* |a - b| <= 1 as JavaScript evaluates it
WithinOne(a, b) ==
  LET diff == MathAbs(Sub(a, b)) IN ~IsNaN(diff) /\ ~Less(Num(1), diff)
EdgeHandles == {"e", "w", "n", "s"}

\* C20: with an edge handle, every mousemove yields dimensions whose driving
\* axis is the anchor plus or minus the delta, floored at 50 (width for e and
\* w, height for n and s), and whose other axis is within 1 of
\* round(width / aspectRatio) for e and w, of round(height * aspectRatio) for
\* n and s.
C20_EdgeKeepsAspectRatio ==
  Dragging(EdgeHandles) =>
    \A e \in PointerEvents :
      LET anchor == effect.st.startDimensions
          handle == effect.st.resizeHandle
          ratio == effect.st.aspectRatio
          dx == Sub(e.clientX, effect.st.startPos.x)
          dy == Sub(e.clientY, effect.st.startPos.y)
          got == HandleMouseMove(effect, react, e).dimensions
          driving ==
            CASE handle = "e" -> MathMax(Num(MinSize), Add(anchor.width, dx))
              [] handle = "w" -> MathMax(Num(MinSize), Sub(anchor.width, dx))
              [] handle = "n" -> MathMax(Num(MinSize), Sub(anchor.height, dy))
              [] handle = "s" -> MathMax(Num(MinSize), Add(anchor.height, dy))
      IN IF handle \in {"e", "w"}
         THEN /\ got.width = MathRound(driving)
              /\ WithinOne(got.height, MathRound(Div(driving, ratio)))
         ELSE /\ got.height = MathRound(driving)
              /\ WithinOne(got.width, MathRound(Mul(driving, ratio)))
\* the handle e of a 200x100 image whose picture is 400x200 (ratio 2) has been
\* dragged 50 to the right: 250x125
C20_Witness ==
  /\ gesture.active /\ gesture.updates = 1
  /\ Dragging({"e"})
  /\ effect.st.aspectRatio = Num(2)
  /\ effect.st.startDimensions = Size(Num(200), Num(100))
  /\ react.dimensions = Size(Num(250), Num(125))
  /\ gesture.lastUpdate = react.dimensions

\* C21: with a corner handle and the shift key held, the axis with the larger
\* absolute delta drives: if |dx| > |dy| the width is the floored corner width
\* and the height is width / aspectRatio, otherwise the height is the floored
\* corner height and the width is height * aspectRatio (both rounded); without
\* the shift key each axis is the floored corner value of its own delta.
C21_CornerWithShift ==
  Dragging(CornerHandles) =>
    \A e \in PointerEvents :
      LET anchor == effect.st.startDimensions
          handle == effect.st.resizeHandle
          ratio == effect.st.aspectRatio
          dx == Sub(e.clientX, effect.st.startPos.x)
          dy == Sub(e.clientY, effect.st.startPos.y)
          cornerWidth == MathMax(Num(MinSize), Add(anchor.width, Mul(CornerSignX(handle), dx)))
          cornerHeight == MathMax(Num(MinSize), Add(anchor.height, Mul(CornerSignY(handle), dy)))
          got == HandleMouseMove(effect, react, e).dimensions
      IN got = IF ~e.shiftKey
               THEN Size(MathRound(cornerWidth), MathRound(cornerHeight))
               ELSE IF Less(MathAbs(dy), MathAbs(dx))
               THEN Size(MathRound(cornerWidth), MathRound(Div(cornerWidth, ratio)))
               ELSE Size(MathRound(Mul(cornerHeight, ratio)), MathRound(cornerHeight))
\* the handle se of a 200x100 image whose picture is 400x200 (ratio 2) has been
\* dragged by (50, 60) with shift held: the height drives, 320x160
C21_Witness ==
  /\ gesture.active /\ gesture.updates = 1
  /\ Dragging({"se"})
  /\ effect.st.aspectRatio = Num(2)
  /\ effect.st.startDimensions = Size(Num(200), Num(100))
  /\ react.dimensions = Size(Num(320), Num(160))
  /\ gesture.lastUpdate = react.dimensions


\* C22: after Ctrl+0 on the selected element, whatever was dragged before, the
\* live and the persisted dimensions have width = min(naturalWidth, 600) and
\* height = round(width / aspectRatio)
C22_ResetRestoresNaturalSize ==
  KeyListening =>
    LET r == HandleKeyDown(effect, react, ImageElement)
        width == MathMin(ImageElement.naturalWidth, Num(MaxWidth))
        height == MathRound(Div(width, react.aspectRatio))
    IN /\ r.st.dimensions = Size(width, height)
       /\ UpdateAttributes(attrs, r.commit) = Size(width, height)


\* the aspect ratio is zero or not finite
Degenerate(ratio) == ~IsFinite(ratio) \/ ratio = Num(0)

\* C23: when the aspect ratio is zero or not finite, a mousemove on an edge
\* handle yields no zero, infinite or NaN dimension, and a mousemove on a
\* corner handle without shift still yields the two floored corner values
C23_DegenerateRatioDisablesDerivation ==
  (MouseListening /\ Degenerate(effect.st.aspectRatio)) =>
    \A e \in PointerEvents :
      LET handle == effect.st.resizeHandle
          anchor == effect.st.startDimensions
          dx == Sub(e.clientX, effect.st.startPos.x)
          dy == Sub(e.clientY, effect.st.startPos.y)
          got == HandleMouseMove(effect, react, e).dimensions
      IN /\ handle \in EdgeHandles =>
              /\ IsFinite(got.width) /\ got.width # Num(0)
              /\ IsFinite(got.height) /\ got.height # Num(0)
         /\ (handle \in CornerHandles /\ ~e.shiftKey) =>
              got = Size(MathRound(MathMax(Num(MinSize), Add(anchor.width, Mul(CornerSignX(handle), dx)))),
                         MathRound(MathMax(Num(MinSize), Add(anchor.height, Mul(CornerSignY(handle), dy)))))


\* mousemove events that lack clientX, clientY or both: the missing property
\* reads as undefined, which the subtraction from startPos turns into NaN
MalformedEvents ==
  { e \in [clientX : PointerXs \cup {NaN}, clientY : PointerYs \cup {NaN}, shiftKey : BOOLEAN] :
      IsNaN(e.clientX) \/ IsNaN(e.clientY) }

\* C24: a mousemove without coordinates, delivered while a gesture is in
\* progress, leaves the live dimensions as they are
C24_MalformedMoveIsIgnored ==
  MouseListening =>
    \A e \in MalformedEvents : HandleMouseMove(effect, react, e).dimensions = react.dimensions


\* C25: when a gesture begins before the picture has reported its natural
\* size, the aspect ratio the gesture uses is the anchor width divided by the
\* anchor height
C25_BeginCapturesAspectRatio ==
  (MouseListening /\ ~image.loaded) =>
    effect.st.aspectRatio = Div(effect.st.startDimensions.width, effect.st.startDimensions.height)


\* C26: the mousemove and mouseup listeners are on the document only while a
\* gesture is in progress, and a mousemove that arrives while none is (before
\* any mousedown, or after the mouseup) leaves the live dimensions, the rest
\* of the component state and the node attributes unchanged
C26_IdleMoveChangesNothing ==
  /\ [](MouseListening => gesture.active)
  /\ [][(~gesture.active /\ \E e \in PointerEvents : MouseMove(e))
          => UNCHANGED <<react, attrs>>]_vars

\* a gesture has ended with 250x160 committed and its listeners are gone
C26_Witness ==
  /\ ~gesture.active /\ gesture.begun = 1 /\ gesture.upCommits = 1
  /\ ~MouseListening
  /\ react.dimensions = Size(Num(250), Num(160))
  /\ attrs = Size(Num(250), Num(160))


(***************************************************************************)
(* Source strings and CSS rules: properties                                *)
(***************************************************************************)
\* the part of a URL before its query string and fragment
UrlPath(url) ==
  LET at == {i \in 1..Len(url) : url[i] \in {"?", "#"}}
  IN IF at = {} THEN url ELSE SubSeq(url, 1, (CHOOSE i \in at : \A j \in at : i <= j) - 1)

\* the extension of the file a URL names, in lower case; empty when the file
\* name has no dot
FileExtension(url) ==
  LET name == SplitPop(UrlPath(url), "/")
  IN IF \E i \in 1..Len(name) : name[i] = "." THEN toLowerCase(SplitPop(name, ".")) ELSE <<>>

\* the format that belongs to a file extension
FormatOfExtension(extension) ==
  IF extension = Woff2 THEN Woff2
  ELSE IF extension = Woff THEN Woff
  ELSE IF extension = Ttf THEN TrueType
  ELSE IF extension = Otf THEN OpenType
  ELSE IF extension = Eot THEN EmbeddedOpenType
  ELSE TrueType

\* the format a definition asks for
FormatOf(definition) ==
  IF definition.format # Undefined THEN definition.format
  ELSE FormatOfExtension(FileExtension(definition.src))

\* C27: the source string names the format given by the definition, and when
\* the definition gives none, the format of the file extension of the URL,
\* compared without regard to case: woff2, woff, ttf -> truetype,
\* otf -> opentype, eot -> embedded-opentype, anything else -> truetype
C27_FormatFollowsExtension ==
  generated.call = "createFontSource" =>
    generated.output =
      <<"u","r","l","(","\"">> \o generated.definition.src \o <<"\"",")"," ","f","o","r","m","a","t","(","\"">>
        \o FormatOf(generated.definition) \o <<"\"",")">>

\* C28: the CSS rule contains font-family: '<family>'; and
\* src: url('<src>') format('<format>'); with the format of the file extension
\* when the definition gives none, font-weight, font-style and font-stretch
\* with the value normal and font-display with swap when left out, and a
\* unicode-range line exactly when a range is given; generating it changes
\* neither the loaded fonts nor the loads in flight
C28_CSSRuleDescribesDefinition ==
  /\ [](generated.call = "createCSSFontFace" =>
         LET d == generated.definition
             css == generated.output
         IN /\ Includes(css, <<"f","o","n","t","-","f","a","m","i","l","y",":"," ","'">> \o d.fontFamily \o <<"'",";">>)
            /\ Includes(css, <<"s","r","c",":"," ","u","r","l","(","'">> \o d.src \o <<"'",")"," ","f","o","r","m","a","t","(","'">> \o FormatOf(d) \o <<"'",")",";">>)
            /\ Includes(css, <<"f","o","n","t","-","w","e","i","g","h","t",":"," ">> \o DefaultTo(d.fontWeight, Normal) \o <<";">>)
            /\ Includes(css, <<"f","o","n","t","-","s","t","y","l","e",":"," ">> \o DefaultTo(d.fontStyle, Normal) \o <<";">>)
            /\ Includes(css, <<"f","o","n","t","-","s","t","r","e","t","c","h",":"," ">> \o DefaultTo(d.fontStretch, Normal) \o <<";">>)
            /\ Includes(css, <<"f","o","n","t","-","d","i","s","p","l","a","y",":"," ">> \o DefaultTo(d.fontDisplay, Swap) \o <<";">>)
            /\ Includes(css, <<"u","n","i","c","o","d","e","-","r","a","n","g","e">>) <=> d.unicodeRange # Undefined
            /\ d.unicodeRange # Undefined =>
                 Includes(css, <<"u","n","i","c","o","d","e","-","r","a","n","g","e",":"," ">> \o d.unicodeRange \o <<";">>))
  /\ [][(\E d \in CSSDefinitions : CreateCSSFontFace(d)) =>
          UNCHANGED <<loadedFonts, loadingPromises, ops, calls, batches, documentFonts,
                      readyQueue>>]_vars


\* C29: when the timer wins the race of a load (its caller is answered with
\* status timeout) and FontFace.load() succeeds afterwards, the face is not
\* added to document.fonts and the family is not entered in loadedFonts: the
\* late success changes neither
C29_LateSuccessIsNotRegistered ==
  /\ [](\A o \in 1..Len(ops) : ops[o].raceBy = "timer" => PerformFace(o) \notin documentFonts)
  /\ [][\A o \in 1..Len(ops) :
          (ops[o].raceBy = "timer" /\ FetchSettles(o, TRUE, NoReason))
            => UNCHANGED <<documentFonts, loadedFonts>>]_vars

\* a load that was answered with status timeout and whose FontFace.load()
\* has succeeded since
C29_Witness ==
  \E o \in 1..Len(ops) :
    /\ ops[o].raceBy = "timer" /\ ops[o].fetch = "fulfilled"
    /\ ops[o].outcome.kind = "fulfilled" /\ ops[o].outcome.value.status = "timeout"
    /\ PerformFace(o) \notin documentFonts
    /\ ~MapHas(loadedFonts, ops[o].family)

\* C29 as stated: the face of a load that succeeds after its timeout is in
\* document.fonts
C29_LateSuccessIsRegistered ==
  \A o \in 1..Len(ops) :
    (ops[o].raceBy = "timer" /\ ops[o].fetch = "fulfilled") => PerformFace(o) \in documentFonts


\* C30: a mounted hook with autoLoad, a non-empty initialFonts and a
\* supporting platform issues the batch load of the initial fonts once, on
\* mount, and not again on later renders, whether the component hands it the
\* same array or a new array with the same contents
C30_AutoLoadIssuedOnce ==
  hook.mounted => hook.issued <= 1


\* C32: during a gesture the dimensions a mousemove yields are a function of
\* the handle, the pointer position and the dimensions at mousedown, the
\* aspect ratio and that mousemove alone: they do not depend on the current
\* dimensions, and a mousemove handled after another one (and after the
\* re-render it causes, which leaves the anchor alone) yields what it would
\* have yielded alone
C32_OnlyLatestPointerMatters ==
  MouseListening =>
    \A e \in PointerEvents :
      LET new == NewSize(react.resizeHandle, react.startDimensions, effect.st.aspectRatio,
                         Sub(e.clientX, react.startPos.x), Sub(e.clientY, react.startPos.y),
                         e.shiftKey)
          alone == HandleMouseMove(effect, react, e).dimensions
      IN /\ alone = Size(MathRound(new.width), MathRound(new.height))
         /\ effect.st.aspectRatio = react.aspectRatio =>
              \A e1 \in {ev \in PointerEvents : ev.shiftKey = e.shiftKey /\ ev.clientX # e.clientX} :
                LET st1 == HandleMouseMove(effect, react, e1)
                IN /\ st1.startPos = react.startPos
                   /\ st1.startDimensions = react.startDimensions
                   /\ HandleMouseMove(View(st1, attrs, selected), st1, e).dimensions = alone

\* the handle nw, pressed at (100,100) on a 200x100 image, has been dragged
\* (through whatever other positions) to (-60,160): 360x50
C32_Witness ==
  /\ gesture.active /\ gesture.updates = 1
  /\ Dragging({"nw"})
  /\ react.startDimensions = Size(Num(200), Num(100))
  /\ react.dimensions = Size(Num(360), Num(50))
  /\ rendered.st.dimensions # react.startDimensions
  /\ rendered.st.dimensions # react.dimensions


\* nodes created with only one of the two attributes
PartialAttrs ==
  { [width |-> Num(200), height |-> Null],
    [width |-> Null, height |-> Num(100)] }

PartialInit ==
  /\ attrs \in PartialAttrs
  /\ image = [naturalWidth |-> Num(400), naturalHeight |-> Num(200), loaded |-> FALSE]
  /\ selected = FALSE
  /\ react = InitialState(attrs)
  /\ rendered = View(react, attrs, selected)
  /\ effect = rendered
  /\ gesture = [active |-> FALSE, begun |-> 0, updates |-> 0, upCommits |-> 0,
                lastUpdate |-> Size(Num(0), Num(0)), lastCommit |-> "none",
                committed |-> Size(Num(0), Num(0)), expected |-> Size(Num(0), Num(0)),
                idleUp |-> "none"]
  /\ NoFontCalls /\ generated = NothingGenerated /\ hook = NotMounted

PartialSpec == PartialInit /\ [][ResizeNext]_vars

\* C39: whenever no gesture is in progress and the picture has loaded, the
\* live dimensions are the width and height held in the node's attributes
C39_LiveEqualsPersisted ==
  (~react.isResizing /\ ~gesture.active /\ image.loaded) =>
    react.dimensions = Size(attrs.width, attrs.height)


(***************************************************************************)
(* Several descriptors of one family (the weights and styles of a family   *)
(* are separate descriptors with the same fontFamily and different src)    *)
(***************************************************************************)
Faces ==
  { [src |-> "regular.woff2", fontWeight |-> "400"],
    [src |-> "bold.woff2", fontWeight |-> "700"] }

Variants ==
  { [fontFamily |-> f, src |-> v.src, fontWeight |-> v.fontWeight] : f \in Families, v \in Faces }

VariantBatches == UNION {[1..k -> Variants] : k \in 1..MaxBatchLen}

VariantNext ==
  \/ \E d \in Variants, t \in Timeouts :
       /\ calls = <<>> => d.fontFamily = FirstFamily
       /\ LoadFont(d, t)
  \/ \E ds \in VariantBatches, t \in Timeouts :
       /\ calls = <<>> => ds[1].fontFamily = FirstFamily
       /\ LoadFonts(ds, t)
  \/ \E o \in 1..Len(ops), r \in FetchRejections : FetchSettles(o, FALSE, r)
  \/ \E o \in 1..Len(ops) : FetchSettles(o, TRUE, NoReason)
  \/ \E o \in 1..Len(ops) : TimerFires(o)
  \/ FontsBusy
  \/ FontsReady
  \/ \E f \in Families : RemoveFont(f)
  \/ ClearAllFonts

VariantSpec == Init /\ [][VariantNext]_vars

\* the sources for which a FontFace has been created and load() called
FetchedBy(o) == ops[o].definition.src

SeqRange(q) == {q[i] : i \in 1..Len(q)}
NoDuplicates(q) == \A i, j \in 1..Len(q) : q[i] = q[j] => i = j
FailedFamilies(st) == [i \in 1..Len(st.failed) |-> st.failed[i].fontFamily]

\* C34: in every state of the hook, isLoading is true exactly when the
\* loading list is not empty
C34_IsLoadingIffLoadingNonEmpty ==
  hook.state.isLoading <=> (Len(hook.state.loading) > 0)

\* one of two families that were loading has settled and the other is still
\* loading
C34_Witness ==
  /\ hook.state.isLoading
  /\ Len(hook.state.loading) = 1
  /\ Len(hook.state.loaded) + Len(hook.state.failed) = 1
  /\ hook.state.loading[1] \notin SeqRange(hook.state.loaded) \cup SeqRange(FailedFamilies(hook.state))

\* C35: no family is both in loaded and in failed, and no family is twice in
\* loading, loaded or failed
C35_ListsDisjointAndDuplicateFree ==
  /\ SeqRange(hook.state.loaded) \cap SeqRange(FailedFamilies(hook.state)) = {}
  /\ NoDuplicates(hook.state.loading)
  /\ NoDuplicates(hook.state.loaded)
  /\ NoDuplicates(FailedFamilies(hook.state))

\* every load has settled: one family is in loaded only and the other in
\* failed only
C35_Witness ==
  /\ hook.state.loaded = <<"Inter">>
  /\ FailedFamilies(hook.state) = <<"Roboto">>
  /\ hook.state.loading = <<>>
  /\ Len(calls) = MaxCalls

\* C37: whenever no load of the hook is pending, every family in the hook's
\* loaded list is reported loaded by the cache
C37_LoadedListWithinCache ==
  (hook.waiting = {} /\ hook.waitingCalls = {}) =>
    \A f \in SeqRange(hook.state.loaded) : isFontLoaded(f)


\* C36: with loads only and timers that fire, a family that leaves the loading
\* list is from then on in exactly one of loaded and failed, every family
\* handed to loadFont or loadFonts is in one of the three lists, and a hook
\* that is loading eventually is not
C36_LoadingEventuallyEnds ==
  /\ [][\A f \in Families :
          LET inLoaded == f \in SeqRange(hook'.state.loaded)
              inFailed == f \in SeqRange(FailedFamilies(hook'.state))
          IN /\ (f \in SeqRange(hook.state.loading) /\ f \notin SeqRange(hook'.state.loading))
                  => (inLoaded # inFailed)
             /\ (f \in SeqRange(hook.state.loaded) \cup SeqRange(FailedFamilies(hook.state)))
                  => (inLoaded # inFailed)
             /\ (\E c \in (Len(calls) + 1)..Len(calls') : calls'[c].family = f)
                  => (f \in SeqRange(hook'.state.loading) \/ inLoaded \/ inFailed)]_vars
  /\ (hook.state.isLoading ~> ~hook.state.isLoading)


\* C38: when every family is loaded once, no family is handed to
\* onFontLoadError more than once
C38_EachFailureReportedOnce ==
  NoDuplicates([i \in 1..Len(hook.user.reported) |-> hook.user.reported[i].fontFamily])


\* C31: once the component has called applyFontToContent(f) or
\* removeFontFromContent(), and no render is outstanding,
\* getCurrentContentFont() returns what the last of these calls set
C31_ContentFontIsLastExplicit ==
  (hook.user.lastExplicit # "none" /\ ~hook.dirty) =>
    getCurrentContentFont = hook.user.lastExplicit

====
